---- MODULE Spec2Model ----
(***************************************************************************)
(* Model of src/api/webhook.js: the LINE webhook of a personal-activity    *)
(* journal.  One text message is routed to one of five paths (undo,        *)
(* backlog, instant log, summary, conversation) that read and change two   *)
(* module-level arrays, logs and chatHistory.                              *)
(*                                                                         *)
(* A JavaScript string is a sequence of characters; a character is a TLA+  *)
(* string.  ASCII characters stand for themselves.  A CJK character is     *)
(* written as its pinyin syllable with tone digit; where two characters of *)
(* the source share a syllable the rarer one gets a letter suffix:         *)
(*   ji4 = U+8A18 (in the backlog marker), ji4b = U+8A08, ji4c = U+5BC4    *)
(*   bu3 = U+88DC, bu4 = U+4E0D, bu4b = U+4F48                             *)
(*   ban4 = U+534A (half), ban4o = U+8FA6 (office)                         *)
(*   yi1 = U+4E00, yi1b = U+8863;  xiu1 = U+4F11, xiu1b = U+4FEE           *)
(*   wei2 = U+70BA, wei2b = U+7DAD; zuo4 = U+505A, zuo4b = U+5EA7          *)
(*   yue1 = U+7D04 (about), yue4 = U+6708 (month)                          *)
(*   shi4 = U+662F, shi4b = U+5BA4                                         *)
(*   "FW:" = U+FF1A, "FW?" = U+FF1F, "FW." = U+3002, "FW!" = U+FF01,       *)
(*   "FW," = U+3001, "IDSP" = U+3000, "LF" = U+000A                        *)
(* An instant (the time value of a Date) is an integer: minutes since      *)
(* 1970-01-01T00:00Z.  Seconds and milliseconds are below the model's      *)
(* resolution and read as zero.                                            *)
(***************************************************************************)
EXTENDS Integers, Sequences, FiniteSets, TLC

VARIABLES
  logs,         \* webhook.js:15  module-level array of log entries
  chatHistory,  \* webhook.js:16  module-level array of conversation turns
  now,          \* the wall clock read by new Date()
  hostOffset,   \* the value of Date.prototype.getTimezoneOffset() on the host
  userText,     \* webhook.js:344 the trimmed text of the event being handled
  path,         \* the branch of the if/else chain of webhook.js:349-538 taken
  targetLog,    \* webhook.js:350 index in logs of the entry Undo chose, 0 if none
  rangeLogs,    \* webhook.js:479 indices in logs of the entries Summary kept
  rangeType,    \* webhook.js:451 range selected by the Summary path
  aiText,       \* webhook.js:345 the reply handed to lineReply
  sheet,        \* webhook.js:68  the notification syncToSheet sent for this event
  status,       \* HTTP status the handler ends with for this event
  recentHistory,\* webhook.js:518 the turns sent with the last dialogue call
  sheetWebhook, \* webhook.js:9   SHEET_WEBHOOK_URL: "unset", or the state of the
                \*                endpoint it names, "up" or "down"
  tasks         \* the invocations of handler in flight, one record per request

vars == <<logs, chatHistory, now, hostOffset, userText, path, targetLog,
          rangeLogs, rangeType, aiText, sheet, status, recentHistory,
          sheetWebhook, tasks>>

\* Bounds of the model: entries in the store, turns in the history, and
\* turns in the history of the specification of long conversations.
MaxLogs == 2

MaxTurns == 2

MaxChat == 7

(***************************************************************************)
(* String primitives of JavaScript on character sequences.                 *)
(***************************************************************************)
Digits == <<"0", "1", "2", "3", "4", "5", "6", "7", "8", "9">>

IsDigit(c) == \E i \in 1..10 : Digits[i] = c

DigitVal(c) == (CHOOSE i \in 1..10 : Digits[i] = c) - 1

\* \s and String.prototype.trim(): U+0020 and, for the other whitespace
\* characters, U+3000 and the line feed.
WhiteSpace == {" ", "IDSP", "LF"}

includes(text, kw) ==
  \E i \in 1..(Len(text) - Len(kw) + 1) : SubSeq(text, i, i + Len(kw) - 1) = kw

startsWith(text, kw) ==
  Len(kw) <= Len(text) /\ SubSeq(text, 1, Len(kw)) = kw

RECURSIVE trimStart(_)
trimStart(text) ==
  IF text # <<>> /\ Head(text) \in WhiteSpace THEN trimStart(Tail(text)) ELSE text

RECURSIVE trim(_)
trim(text) ==
  IF text # <<>> /\ text[Len(text)] \in WhiteSpace
  THEN trim(SubSeq(text, 1, Len(text) - 1))
  ELSE trimStart(text)

\* text.split(" "): the number of parts, and parts[1]
SpaceAt(text) == {i \in 1..Len(text) : text[i] = " "}

splitLength(text) == Cardinality(SpaceAt(text)) + 1

splitPart1(text) ==
  LET first == CHOOSE i \in SpaceAt(text) : \A j \in SpaceAt(text) : i <= j
      later == {j \in SpaceAt(text) : j > first}
      stop  == IF later = {} THEN Len(text) + 1
               ELSE CHOOSE j \in later : \A k \in later : j <= k
  IN  SubSeq(text, first + 1, stop - 1)

(***************************************************************************)
(* Message predicates, webhook.js:79-108.                                  *)
(***************************************************************************)
KwBacklog == <<"bu3", "ji4">>

KwSummary == <<"zong3", "jie2">>

KwUndo == <<"che4", "xiao1">>

KwDeletePrevious == <<"shan1", "chu2", "shang4", "yi1", "ze2">>

isBacklogMessage(text) == startsWith(trim(text), KwBacklog)

isSummaryRequest(text) == includes(text, KwSummary)

isUndoRequest(text) == includes(text, KwUndo) \/ includes(text, KwDeletePrevious)

QuestionEnds == {"ma5", "?", "FW?"}

nonLogStarts ==
  { <<"wo3", "jue2", "de2">>, <<"wo3", "xi1", "wang4">>, <<"wo3", "cai1">>,
    <<"wo3", "ren4", "wei2">>, <<"ke3", "yi3", "bang1">>,
    <<"neng2", "bu4", "neng2">>, <<"yao4", "bu4", "yao4">>,
    <<"shi4", "bu4", "shi4">> }

verbs ==
  { <<"qi3", "chuang2">>, <<"chu1", "men2">>, <<"dao4">>, <<"hui2">>,
    <<"chi1">>, <<"he1">>, <<"mai3">>, <<"hua4">>, <<"xie3">>,
    <<"chu3", "li3">>, <<"zuo4">>, <<"da3", "sao3">>, <<"qing1", "li3">>,
    <<"kan4">>, <<"shui4">>, <<"xiu1", "xi2">>, <<"xi3">>,
    <<"wan2", "cheng2">>, <<"zhun3", "bei4">> }

\* the verb test ahead of the test of the opening phrases
isLogCandidateVerbsBeforeStarts(text) ==
  IF text # <<>> /\ text[Len(text)] \in QuestionEnds THEN FALSE
  ELSE IF startsWith(text, KwBacklog) \/ includes(text, KwSummary)
          \/ startsWith(text, KwUndo) THEN FALSE
  ELSE IF \E v \in verbs : includes(text, v) THEN TRUE
  ELSE IF \E p \in nonLogStarts : startsWith(text, p) THEN FALSE
  ELSE IF startsWith(text, <<"wo3">>) \/ includes(text, <<"zheng4", "zai4">>)
          \/ includes(text, <<"gang1">>) THEN TRUE
  ELSE FALSE

\* the verb test ahead of the question test
isLogCandidateVerbsFirst(text) ==
  IF \E v \in verbs : includes(text, v) THEN TRUE
  ELSE IF text # <<>> /\ text[Len(text)] \in QuestionEnds THEN FALSE
  ELSE IF \E p \in nonLogStarts : startsWith(text, p) THEN FALSE
  ELSE IF startsWith(text, KwBacklog) \/ includes(text, KwSummary)
          \/ startsWith(text, KwUndo) THEN FALSE
  ELSE IF startsWith(text, <<"wo3">>) \/ includes(text, <<"zheng4", "zai4">>)
          \/ includes(text, <<"gang1">>) THEN TRUE
  ELSE FALSE

\* the exclusion of webhook.js:98 with startsWith for all three markers
isLogCandidateStartsOnly(text) ==
  IF text # <<>> /\ text[Len(text)] \in QuestionEnds THEN FALSE
  ELSE IF \E p \in nonLogStarts : startsWith(text, p) THEN FALSE
  ELSE IF startsWith(text, KwBacklog) \/ startsWith(text, KwSummary)
          \/ startsWith(text, KwUndo) THEN FALSE
  ELSE IF \E v \in verbs : includes(text, v) THEN TRUE
  ELSE IF startsWith(text, <<"wo3">>) \/ includes(text, <<"zheng4", "zai4">>)
          \/ includes(text, <<"gang1">>) THEN TRUE
  ELSE FALSE

isLogCandidate(text) ==
  IF text # <<>> /\ text[Len(text)] \in QuestionEnds THEN FALSE
  ELSE IF \E p \in nonLogStarts : startsWith(text, p) THEN FALSE
  ELSE IF startsWith(text, KwBacklog) \/ includes(text, KwSummary)
          \/ startsWith(text, KwUndo) THEN FALSE
  ELSE IF \E v \in verbs : includes(text, v) THEN TRUE
  ELSE IF startsWith(text, <<"wo3">>) \/ includes(text, <<"zheng4", "zai4">>)
          \/ includes(text, <<"gang1">>) THEN TRUE
  ELSE FALSE

\* the chain with the backlog test ahead of the undo test
routeBacklogFirst(text) ==
  IF isBacklogMessage(text) THEN "Backlog"
  ELSE IF isUndoRequest(text) THEN "Undo"
  ELSE IF isLogCandidate(text) THEN "InstantLog"
  ELSE IF isSummaryRequest(text) THEN "Summary"
  ELSE "Conversation"

\* the else-if chain of the handler, webhook.js:349, 386, 418, 450, 515
route(text) ==
  IF isUndoRequest(text) THEN "Undo"
  ELSE IF isBacklogMessage(text) THEN "Backlog"
  ELSE IF isLogCandidate(text) THEN "InstantLog"
  ELSE IF isSummaryRequest(text) THEN "Summary"
  ELSE "Conversation"

(***************************************************************************)
(* Date: the proleptic Gregorian calendar of ECMAScript (MakeDay, the      *)
(* local-time getters and setters), for hosts without daylight saving.     *)
(***************************************************************************)
DaysFromCivil(y, m, d) ==
  LET yy  == y + ((m - 1) \div 12)
      mm  == ((m - 1) % 12) + 1
      ya  == IF mm <= 2 THEN yy - 1 ELSE yy
      era == ya \div 400
      yoe == ya - era * 400
      mp  == IF mm > 2 THEN mm - 3 ELSE mm + 9
      doy == ((153 * mp + 2) \div 5) + d - 1
      doe == yoe * 365 + (yoe \div 4) - (yoe \div 100) + doy
  IN  era * 146097 + doe - 719468

CivilFromDays(z) ==
  LET zz  == z + 719468
      era == zz \div 146097
      doe == zz - era * 146097
      yoe == (doe - (doe \div 1460) + (doe \div 36524) - (doe \div 146096)) \div 365
      doy == doe - (365 * yoe + (yoe \div 4) - (yoe \div 100))
      mp  == (5 * doy + 2) \div 153
      d   == doy - ((153 * mp + 2) \div 5) + 1
      m   == IF mp < 10 THEN mp + 3 ELSE mp - 9
      y   == yoe + era * 400 + (IF m <= 2 THEN 1 ELSE 0)
  IN  [y |-> y, m |-> m, d |-> d]

\* getFullYear, getMonth() + 1, getDate, getHours, getMinutes, getDay of a
\* Date with time value t on a host whose getTimezoneOffset() is off
LocalFields(t, off) ==
  LET l == t - off
      c == CivilFromDays(l \div 1440)
  IN  [y |-> c.y, m |-> c.m, d |-> c.d, hh |-> (l % 1440) \div 60,
       mm |-> l % 60, day |-> ((l \div 1440) + 4) % 7]

\* new Date(y, m - 1, d, hh, mm) on that host
MakeLocal(y, m, d, hh, mm, off) ==
  DaysFromCivil(y, m, d) * 1440 + hh * 60 + mm + off

\* setHours(0, 0, 0, 0) and setHours(23, 59, 59, 999)
StartOfLocalDay(t, off) == ((t - off) \div 1440) * 1440 + off

EndOfLocalDay(t, off) == StartOfLocalDay(t, off) + 1439

RECURSIVE NumStr(_)
NumStr(n) ==
  IF n < 10 THEN <<Digits[n + 1]>> ELSE NumStr(n \div 10) \o <<Digits[(n % 10) + 1]>>

\* String(n).padStart(2, "0")
Pad2(n) == IF n < 10 THEN <<"0">> \o NumStr(n) ELSE NumStr(n)

\* Date.prototype.toISOString()
toISOString(t) ==
  LET f == LocalFields(t, 0)
  IN  NumStr(f.y) \o <<"-">> \o Pad2(f.m) \o <<"-">> \o Pad2(f.d) \o <<"T">>
      \o Pad2(f.hh) \o <<":">> \o Pad2(f.mm) \o <<":", "0", "0", ".", "0", "0", "0", "Z">>

Num2(text, i) == DigitVal(text[i]) * 10 + DigitVal(text[i + 1])

\* new Date(iso).getTime() for the strings toISOString produces
DateParseISO(s) ==
  DaysFromCivil(Num2(s, 1) * 100 + Num2(s, 3), Num2(s, 6), Num2(s, 9)) * 1440
    + Num2(s, 12) * 60 + Num2(s, 15)

\* webhook.js:19
nowUtcISO == toISOString(now)

\* webhook.js:22  toLocaleString("zh-TW", { timeZone: "Asia/Taipei" })
nowTaipeiDisplay ==
  LET f   == LocalFields(now, -480)
      h12 == IF f.hh % 12 = 0 THEN 12 ELSE f.hh % 12
  IN  NumStr(f.y) \o <<"/">> \o NumStr(f.m) \o <<"/">> \o NumStr(f.d) \o <<" ">>
      \o (IF f.hh < 12 THEN <<"shang4", "wu3">> ELSE <<"xia4", "wu3">>)
      \o NumStr(h12) \o <<":">> \o Pad2(f.mm) \o <<":", "0", "0">>

\* webhook.js:26, and the same expression at webhook.js:118-122
taiwanNow == now + (8 * 60 - hostOffset)

(***************************************************************************)
(* parseDateTimeDetailed, webhook.js:117-180.                              *)
(***************************************************************************)
At(text, i) == IF i \in 1..Len(text) THEN text[i] ELSE "EOS"

\* the leftmost match of /(\d{1,2})X(\d{1,2})/ where X is one character of
\* seps: [at |-> 0] if there is none, else the two groups; g2 is -1 when the
\* second group is optional and absent
MatchNumSepNum(text, seps, optional) ==
  LET n1(i) == IF IsDigit(At(text, i)) /\ IsDigit(At(text, i + 1))
                  /\ At(text, i + 2) \in seps
                  /\ (optional \/ IsDigit(At(text, i + 3)))
               THEN 2
               ELSE IF IsDigit(At(text, i)) /\ At(text, i + 1) \in seps
                       /\ (optional \/ IsDigit(At(text, i + 2)))
               THEN 1 ELSE 0
      starts == {i \in 1..Len(text) : n1(i) > 0}
  IN  IF starts = {} THEN [at |-> 0, g1 |-> 0, g2 |-> -1]
      ELSE LET i == CHOOSE k \in starts : \A j \in starts : k <= j
               q == i + n1(i) + 1
               g1 == IF n1(i) = 2 THEN Num2(text, i) ELSE DigitVal(text[i])
               g2 == IF ~IsDigit(At(text, q)) THEN -1
                     ELSE IF IsDigit(At(text, q + 1)) THEN Num2(text, q)
                     ELSE DigitVal(text[q])
           IN  [at |-> i, g1 |-> g1, g2 |-> g2]

\* text.match(/yue1.*$/)?.[0] || text
matchApprox(text) ==
  LET ok == {i \in 1..Len(text) :
               text[i] = "yue1" /\ \A j \in (i + 1)..Len(text) : text[j] # "LF"}
  IN  IF ok = {} THEN text
      ELSE SubSeq(text, CHOOSE i \in ok : \A j \in ok : i <= j, Len(text))

\* new Date("y-mm-ddThh:mm:00+08:00") is a valid Date (V8: month 1..12, day
\* 1..31 carried into the next month, hour 24 only as 24:00)
validDateTime(m, d, hh, mm) ==
  /\ m \in 1..12 /\ d \in 1..31
  /\ (hh <= 23 /\ mm <= 59) \/ (hh = 24 /\ mm = 0)

Null == <<"null">>

\* the relative-day words with their offsets in days, in the order of the
\* else-if chain of webhook.js:136-150, and in the order farthest past first
WordsInChainOrder ==
  << [w |-> <<"jin1", "tian1">>, k |-> 0], [w |-> <<"zuo2", "tian1">>, k |-> -1],
     [w |-> <<"qian2", "tian1">>, k |-> -2], [w |-> <<"ming2", "tian1">>, k |-> 1] >>

WordsFarthestFirst ==
  << [w |-> <<"qian2", "tian1">>, k |-> -2], [w |-> <<"zuo2", "tian1">>, k |-> -1],
     [w |-> <<"jin1", "tian1">>, k |-> 0], [w |-> <<"ming2", "tian1">>, k |-> 1] >>

\* the parser with its decisions as parameters: words is the priority order
\* of the relative-day words, vagueLast tests the vague-time marker only
\* when no date was found, clockDates lets a clock time alone date the text
\* to the current day
parseDateTimeVariant(text, words, vagueLast, clockDates) ==
  LET base == LocalFields(taiwanNow, hostOffset)
      hits == {i \in 1..Len(words) : includes(text, words[i].w)}
      first == CHOOSE i \in hits : \A j \in hits : i <= j
      rel  == IF hits = {} THEN base
              ELSE LocalFields(taiwanNow + words[first].k * 1440, hostOffset)
      md == MatchNumSepNum(text, {"/", "-"}, FALSE)
      m  == IF md.at > 0 THEN md.g1 ELSE rel.m
      d  == IF md.at > 0 THEN md.g2 ELSE rel.d
      hm == MatchNumSepNum(text, {":", "dian3"}, TRUE)
      hadDate == hits # {} \/ md.at > 0 \/ (clockDates /\ hm.at > 0)
      hh == IF hm.at > 0 THEN hm.g1 ELSE 0
      mm == IF hm.at > 0 /\ hm.g2 >= 0 THEN hm.g2
            ELSE IF hm.at > 0 /\ includes(text, <<"ban4">>) THEN 30
            ELSE 0
      vague == includes(text, <<"yue1">>) \/ includes(text, <<"da4", "yue1">>)
  IN  IF vague /\ (~vagueLast \/ ~hadDate)
      THEN [display |-> trim(matchApprox(text)), iso |-> Null, threw |-> FALSE]
      ELSE IF ~hadDate
      THEN [display |-> trim(text), iso |-> Null, threw |-> FALSE]
      ELSE IF ~validDateTime(m, d, hh, mm)
      THEN [display |-> <<>>, iso |-> Null, threw |-> TRUE]
      ELSE [display |-> NumStr(m) \o <<"/">> \o NumStr(d) \o <<" ">>
                        \o Pad2(hh) \o <<":">> \o Pad2(mm),
            iso |-> toISOString(DaysFromCivil(rel.y, m, d) * 1440 + hh * 60 + mm - 480),
            threw |-> FALSE]

\* a parser that keeps a vague text as it is only when it found no date
parseDateTimeVagueLast(text) ==
  parseDateTimeVariant(text, WordsInChainOrder, TRUE, FALSE)

\* a parser for which a clock time alone means the current day
parseDateTimeClockDates(text) ==
  parseDateTimeVariant(text, WordsInChainOrder, FALSE, TRUE)

\* a parser that tests the relative-day words farthest past first
parseDateTimeFarthestFirst(text) ==
  parseDateTimeVariant(text, WordsFarthestFirst, FALSE, FALSE)

\* [display, iso, threw]: threw is the RangeError of toISOString on an
\* invalid Date
parseDateTimeDetailed(text) ==
  LET base == LocalFields(taiwanNow, hostOffset)
      back(k) == LocalFields(taiwanNow - k * 1440, hostOffset)
      rel  == IF includes(text, <<"jin1", "tian1">>) THEN base
              ELSE IF includes(text, <<"zuo2", "tian1">>) THEN back(1)
              ELSE IF includes(text, <<"qian2", "tian1">>) THEN back(2)
              ELSE IF includes(text, <<"ming2", "tian1">>) THEN back(-1)
              ELSE base
      hadRel == \E w \in {"jin1", "zuo2", "qian2", "ming2"} : includes(text, <<w, "tian1">>)
      md == MatchNumSepNum(text, {"/", "-"}, FALSE)
      m  == IF md.at > 0 THEN md.g1 ELSE rel.m
      d  == IF md.at > 0 THEN md.g2 ELSE rel.d
      hadDate == hadRel \/ md.at > 0
      hm == MatchNumSepNum(text, {":", "dian3"}, TRUE)
      hh == IF hm.at > 0 THEN hm.g1 ELSE 0
      mm == IF hm.at > 0 /\ hm.g2 >= 0 THEN hm.g2
            ELSE IF hm.at > 0 /\ includes(text, <<"ban4">>) THEN 30
            ELSE 0
  IN  IF includes(text, <<"yue1">>) \/ includes(text, <<"da4", "yue1">>)
      THEN [display |-> trim(matchApprox(text)), iso |-> Null, threw |-> FALSE]
      ELSE IF ~hadDate
      THEN [display |-> trim(text), iso |-> Null, threw |-> FALSE]
      ELSE IF ~validDateTime(m, d, hh, mm)
      THEN [display |-> <<>>, iso |-> Null, threw |-> TRUE]
      ELSE [display |-> NumStr(m) \o <<"/">> \o NumStr(d) \o <<" ">>
                        \o Pad2(hh) \o <<":">> \o Pad2(mm),
            iso |-> toISOString(DaysFromCivil(rel.y, m, d) * 1440 + hh * 60 + mm - 480),
            threw |-> FALSE]

(***************************************************************************)
(* The collaborators.  A call to the OpenAI client either rejects ("error")*)
(* or resolves with a message content.  For the classifier the content is  *)
(* "notjson" (JSON.parse throws), "null" (the JSON value null), "nomain" (a*)
(* JSON object without the main and tags arrays) or "ok" (an object with   *)
(* both arrays).  Module labels are "A".."F" for the six labels of the     *)
(* prompt at webhook.js:209; tag labels are short names of the tags.       *)
(***************************************************************************)
Undefined == <<"undefined">>

galleryKeywords ==
  { <<"yi4", "lang2">>, <<"zhan3", "lan3">>, <<"zhan3", "chang3">>,
    <<"bu4b", "zhan3">>, <<"che4", "zhan3">>, <<"ce4", "zhan3">>,
    <<"kuai4", "ji4b">>, <<"shou1", "ju4">>, <<"zuo4", "wang3", "zhan4">>,
    <<"jia4", "wang3", "zhan4">>, <<"zhao1", "zhao1">>,
    <<"lu4", "jiao3", "yin2">>, <<"jiang3", "zuo4b">>, <<"gu4", "zhan3">>,
    <<"shou1", "zhan3">>, <<"zhan3", "pin3">>, <<"yi4", "shu4", "jia1">>,
    <<"ji4c", "mai4">>, <<"fen1", "run4">>, <<"dui4", "zhang4">> }

officeActions ==
  { <<"da3", "sao3">>, <<"qing1", "li3">>, <<"zheng3", "li3">>,
    <<"shou1", "na4">>, <<"wei2b", "hu4">>, <<"xiu1b", "shan4">>,
    <<"bu3", "huo4">>, <<"jian3", "cha2">> }

\* the office rule ahead of the gallery rule
classifyStateLogOfficeFirst(text, r) ==
  IF (includes(text, <<"ban4o", "gong1", "shi4b">>)
      /\ \E kw \in officeActions : includes(text, kw))
     \/ includes(text, <<"xi3", "yi1b", "dian4">>)
  THEN [main |-> <<"E">>, tags |-> <<"tidy">>, isNull |-> FALSE]
  ELSE IF \E kw \in galleryKeywords : includes(text, kw)
  THEN [main |-> <<"A">>, tags |-> <<"admin">>, isNull |-> FALSE]
  ELSE IF r.kind \in {"error", "notjson"}
  THEN [main |-> <<"F">>, tags |-> <<"other">>, isNull |-> FALSE]
  ELSE IF r.kind = "null"
  THEN [main |-> Undefined, tags |-> Undefined, isNull |-> TRUE]
  ELSE IF r.kind = "nomain"
  THEN [main |-> Undefined, tags |-> Undefined, isNull |-> FALSE]
  ELSE [main |-> r.main, tags |-> r.tags, isNull |-> FALSE]

\* webhook.js:190-227; r is the collaborator's answer
classifyStateLog(text, r) ==
  IF \E kw \in galleryKeywords : includes(text, kw)
  THEN [main |-> <<"A">>, tags |-> <<"admin">>, isNull |-> FALSE]
  ELSE IF (includes(text, <<"ban4o", "gong1", "shi4b">>)
           /\ \E kw \in officeActions : includes(text, kw))
          \/ includes(text, <<"xi3", "yi1b", "dian4">>)
  THEN [main |-> <<"E">>, tags |-> <<"tidy">>, isNull |-> FALSE]
  ELSE IF r.kind \in {"error", "notjson"}
  THEN [main |-> <<"F">>, tags |-> <<"other">>, isNull |-> FALSE]
  ELSE IF r.kind = "null"
  THEN [main |-> Undefined, tags |-> Undefined, isNull |-> TRUE]
  ELSE IF r.kind = "nomain"
  THEN [main |-> Undefined, tags |-> Undefined, isNull |-> FALSE]
  ELSE [main |-> r.main, tags |-> r.tags, isNull |-> FALSE]

TrailingPunctuation == {".", ",", "FW.", "FW!", "FW?", "FW,"}

\* webhook.js:230-247; r is the collaborator's answer
summarizeEvent(text, r) ==
  IF r.kind = "error" THEN text
  ELSE LET s == trim(r.content)
       IN  IF s # <<>> /\ s[Len(s)] \in TrailingPunctuation
           THEN SubSeq(s, 1, Len(s) - 1) ELSE s

\* webhook.js:250-289; r is the collaborator's answer
generateShortPhrase(text, isBacklog, r) ==
  IF r.kind = "error" THEN <<"(", "recorded", ")">> ELSE trim(r.content)

(***************************************************************************)
(* The log store and the Undo path, webhook.js:349-382.                    *)
(***************************************************************************)
NoSheet == [action |-> "none"]

\* a syncToSheet without the test of webhook.js:63
syncToSheetAlways(payload) == [payload EXCEPT !.delivered = sheetWebhook = "up"]

\* webhook.js:62-76: nothing is sent when SHEET_WEBHOOK_URL is not set; a
\* fetch that rejects is caught and only logged
syncToSheet(payload) ==
  IF sheetWebhook = "unset" THEN NoSheet
  ELSE [payload EXCEPT !.delivered = sheetWebhook = "up"]

NoReply == [kind |-> "none"]

\* a search from the end of the store
findByTimeLast(targetTime) ==
  LET hit == {i \in 1..Len(logs) :
                ~logs[i].deleted
                /\ \/ logs[i].timeISO # Null /\ logs[i].timeISO = targetTime
                   \/ logs[i].timeDisplay = targetTime}
  IN  IF hit = {} THEN 0 ELSE CHOOSE i \in hit : \A j \in hit : i >= j

\* logs.find(...) of webhook.js:356: the first entry that is not deleted
\* and whose timeISO or timeDisplay is the token; 0 when there is none
findByTime(targetTime) ==
  LET hit == {i \in 1..Len(logs) :
                ~logs[i].deleted
                /\ \/ logs[i].timeISO # Null /\ logs[i].timeISO = targetTime
                   \/ logs[i].timeDisplay = targetTime}
  IN  IF hit = {} THEN 0 ELSE CHOOSE i \in hit : \A j \in hit : i <= j

\* a fallback that scans from the front
findFirstActive ==
  LET live == {i \in 1..Len(logs) : ~logs[i].deleted}
  IN  IF live = {} THEN 0 ELSE CHOOSE i \in live : \A j \in live : i <= j

\* a fallback that ignores the deleted flag
findLastAny == Len(logs)

\* [...logs].reverse().find(...) of webhook.js:365
findLastActive ==
  LET live == {i \in 1..Len(logs) : ~logs[i].deleted}
  IN  IF live = {} THEN 0 ELSE CHOOSE i \in live : \A j \in live : i >= j

\* webhook.js:350-366
undoTarget(text) ==
  LET byTime == IF splitLength(text) > 1 THEN findByTime(trim(splitPart1(text))) ELSE 0
  IN  IF byTime = 0 /\ Len(logs) > 0 THEN findLastActive ELSE byTime

\* timeDisplay || "" and summary || "(none)" of webhook.js:378
undoReply(log) ==
  [kind |-> "undone", timeDisplay |-> log.timeDisplay,
   summary |-> IF log.summary = <<>> THEN <<"(", "none", ")">> ELSE log.summary]

\* a flag kept on the entry undone last only
softDeleteOnly(i) == [k \in 1..Len(logs) |-> [logs[k] EXCEPT !.deleted = (k = i)]]

\* a removal of the entry in place of the flag
softDeleteSplice(i) == SubSeq(logs, 1, i - 1) \o SubSeq(logs, i + 1, Len(logs))

\* the flag is not set when the entry is chosen
softDeleteLater(i) == logs

\* targetLog.deleted = true, webhook.js:369
softDelete(i) == [logs EXCEPT ![i].deleted = TRUE]

UndoPath(text) ==
  /\ route(text) = "Undo"
  /\ LET i == undoTarget(text)
     IN  /\ targetLog' = i
         /\ IF i > 0
            THEN /\ logs' = softDelete(i)
                 /\ sheet' = syncToSheet([action |-> "delete",
                                           timeISO |-> logs[i].timeISO,
                                           timeDisplay |-> logs[i].timeDisplay,
                                           delivered |-> FALSE])
                 /\ aiText' = undoReply(logs[i])
            ELSE /\ logs' = logs
                 /\ sheet' = NoSheet
                 /\ aiText' = [kind |-> "nothingToUndo"]
  /\ userText' = text
  /\ path' = "Undo"
  /\ status' = 200
  /\ rangeLogs' = <<>>
  /\ rangeType' = "none"
  /\ UNCHANGED <<chatHistory, now, hostOffset, recentHistory, sheetWebhook, tasks>>

(***************************************************************************)
(* The Backlog and Instant paths, webhook.js:386-447.                      *)
(***************************************************************************)
\* userText.replace(/^bu3 ji4[:FW:]?\s*/, "")
stripBacklogMarker(text) ==
  LET a == IF startsWith(text, KwBacklog) THEN SubSeq(text, 3, Len(text)) ELSE text
      b == IF a # <<>> /\ Head(a) \in {":", "FW:"} THEN Tail(a) ELSE a
  IN  IF startsWith(text, KwBacklog) THEN trimStart(b) ELSE text

\* an entry that keeps the display and drops the instant
logItemUndated(type, timeISO, timeDisplay, summary, category) ==
  [type |-> type, timeISO |-> Null, timeDisplay |-> timeDisplay,
   summary |-> summary, main |-> category.main, tags |-> category.tags,
   deleted |-> FALSE]

\* the object literal of webhook.js:394-401 and 426-433
logItem(type, timeISO, timeDisplay, summary, category) ==
  [type |-> type, timeISO |-> timeISO, timeDisplay |-> timeDisplay,
   summary |-> summary, main |-> category.main, tags |-> category.tags,
   deleted |-> FALSE]

\* the template of webhook.js:410-414 and 442-446
logReply(kind, item, shortPhrase) ==
  [kind |-> kind, timeDisplay |-> item.timeDisplay, summary |-> item.summary,
   main |-> IF item.main = <<>> THEN <<"none">> ELSE item.main,
   tags |-> IF item.tags = <<>> THEN <<"none">> ELSE item.tags,
   phrase |-> shortPhrase]

\* what the two paths do once the time of the entry is known: the three
\* collaborator calls, logs.push, syncToSheet and the reply.  category is
\* null: the read of category.main throws before the push.  main or tags
\* is undefined: join throws after the push and the sync.
AppendLog(type, content, t, c, s, p) ==
  LET category == classifyStateLog(content, c)
      item == logItem(type, t.iso, t.display, summarizeEvent(content, s), category)
  IN  IF t.threw \/ category.isNull
      THEN /\ logs' = logs /\ sheet' = NoSheet /\ aiText' = NoReply /\ status' = 500
      ELSE /\ logs' = Append(logs, item)
           /\ sheet' = syncToSheet([action |-> "append", item |-> item,
                                     delivered |-> FALSE])
           /\ IF item.main = Undefined \/ item.tags = Undefined
              THEN aiText' = NoReply /\ status' = 500
              ELSE /\ aiText' = logReply(type, item,
                                         generateShortPhrase(content, type = "backlog", p))
                   /\ status' = 200

BacklogPath(text, c, s, p) ==
  /\ route(text) = "Backlog"
  /\ Len(logs) < MaxLogs
  /\ LET content == stripBacklogMarker(text)
     IN  AppendLog("backlog", content, parseDateTimeDetailed(content), c, s, p)
  /\ userText' = text
  /\ path' = "Backlog"
  /\ targetLog' = 0
  /\ rangeLogs' = <<>>
  /\ rangeType' = "none"
  /\ UNCHANGED <<chatHistory, now, hostOffset, recentHistory, sheetWebhook, tasks>>

InstantPath(text, c, s, p) ==
  /\ route(text) = "InstantLog"
  /\ Len(logs) < MaxLogs
  /\ AppendLog("instant", text,
               [display |-> nowTaipeiDisplay, iso |-> nowUtcISO, threw |-> FALSE], c, s, p)
  /\ userText' = text
  /\ path' = "InstantLog"
  /\ targetLog' = 0
  /\ rangeLogs' = <<>>
  /\ rangeType' = "none"
  /\ UNCHANGED <<chatHistory, now, hostOffset, recentHistory, sheetWebhook, tasks>>

(***************************************************************************)
(* The Summary path, webhook.js:292-317 and 450-512.                       *)
(***************************************************************************)
\* webhook.js:292-317: [start, end] of "today", "week", "month"
getDateRange(type) ==
  LET nowTW == taiwanNow
      f     == LocalFields(nowTW, hostOffset)
      day   == IF f.day = 0 THEN 7 ELSE f.day
      monday == StartOfLocalDay(nowTW - (day - 1) * 1440, hostOffset)
      first == MakeLocal(f.y, f.m, 1, 0, 0, hostOffset)
  IN  IF type = "today"
      THEN [start |-> StartOfLocalDay(nowTW, hostOffset),
            end |-> EndOfLocalDay(nowTW, hostOffset)]
      ELSE IF type = "week"
      THEN [start |-> monday, end |-> EndOfLocalDay(monday + 6 * 1440, hostOffset)]
      ELSE IF type = "month"
      THEN [start |-> first,
            end |-> EndOfLocalDay(MakeLocal(f.y, f.m + 1, 0, 0, 0, hostOffset), hostOffset)]
      ELSE [start |-> nowTW, end |-> nowTW]

\* the selection with the month/day pattern tested first
selectRangeDayFirst(text) ==
  LET md == MatchNumSepNum(text, {"/", "-"}, FALSE)
      y  == LocalFields(now, hostOffset).y
  IN  IF md.at > 0
      THEN [type |-> "custom", customDate |-> MakeLocal(y, md.g1, md.g2, 0, 0, hostOffset)]
      ELSE IF includes(text, <<"zhou1">>) THEN [type |-> "week", customDate |-> 0]
      ELSE IF includes(text, <<"yue4">>) THEN [type |-> "month", customDate |-> 0]
      ELSE [type |-> "today", customDate |-> 0]

\* webhook.js:451-467: the range type and, for "custom", customDate
selectRange(text) ==
  LET md == MatchNumSepNum(text, {"/", "-"}, FALSE)
      y  == LocalFields(now, hostOffset).y
  IN  IF includes(text, <<"zhou1">>) THEN [type |-> "week", customDate |-> 0]
      ELSE IF includes(text, <<"yue4">>) THEN [type |-> "month", customDate |-> 0]
      ELSE IF md.at > 0
      THEN [type |-> "custom", customDate |-> MakeLocal(y, md.g1, md.g2, 0, 0, hostOffset)]
      ELSE [type |-> "today", customDate |-> 0]

\* webhook.js:470-476
summaryRange(sel) ==
  IF sel.type = "custom"
  THEN [start |-> StartOfLocalDay(sel.customDate, hostOffset),
        end |-> EndOfLocalDay(sel.customDate, hostOffset)]
  ELSE getDateRange(sel.type)

\* a filter that forgets the deleted flag
filterRangeKeepDeleted(range) ==
  LET keep(i) == /\ logs[i].timeISO # Null
                 /\ DateParseISO(logs[i].timeISO) >= range.start
                 /\ DateParseISO(logs[i].timeISO) <= range.end
      F[i \in 0..Len(logs)] ==
        IF i = 0 THEN <<>> ELSE IF keep(i) THEN Append(F[i - 1], i) ELSE F[i - 1]
  IN  F[Len(logs)]

\* webhook.js:479-483: the indices, in store order, of the entries kept
filterRange(range) ==
  LET keep(i) == /\ ~logs[i].deleted
                 /\ logs[i].timeISO # Null
                 /\ DateParseISO(logs[i].timeISO) >= range.start
                 /\ DateParseISO(logs[i].timeISO) <= range.end
      F[i \in 0..Len(logs)] ==
        IF i = 0 THEN <<>> ELSE IF keep(i) THEN Append(F[i - 1], i) ELSE F[i - 1]
  IN  F[Len(logs)]

\* webhook.js:485-492
summaryTitle(sel) ==
  IF sel.type = "custom"
  THEN LET f == LocalFields(sel.customDate, hostOffset)
       IN  [type |-> "custom", m |-> f.m, d |-> f.d]
  ELSE [type |-> sel.type, m |-> 0, d |-> 0]

\* webhook.js:498-501: one line per entry kept
summaryList(kept) ==
  [k \in 1..Len(kept) |->
     [n |-> k, timeDisplay |-> logs[kept[k]].timeDisplay,
      summary |-> logs[kept[k]].summary, main |-> logs[kept[k]].main,
      tags |-> IF logs[kept[k]].tags = <<>> THEN <<"none">> ELSE logs[kept[k]].tags]]

\* webhook.js:504-508: the counts per module, in order of first occurrence
summaryStats(kept) ==
  LET bump(st, m) ==
        IF \E k \in 1..Len(st) : st[k].module = m
        THEN [k \in 1..Len(st) |->
                IF st[k].module = m THEN [st[k] EXCEPT !.count = @ + 1] ELSE st[k]]
        ELSE Append(st, [module |-> m, count |-> 1])
      G[i \in 0..Len(kept)] ==
        IF i = 0 THEN <<>>
        ELSE LET ms == logs[kept[i]].main
                 H[j \in 0..Len(ms)] ==
                   IF j = 0 THEN G[i - 1] ELSE bump(H[j - 1], ms[j])
             IN  H[Len(ms)]
  IN  G[Len(kept)]

SummaryPath(text) ==
  /\ route(text) = "Summary"
  /\ LET sel  == selectRange(text)
         kept == filterRange(summaryRange(sel))
     IN  /\ rangeType' = sel.type
         /\ rangeLogs' = kept
         /\ IF kept = <<>>
            THEN aiText' = [kind |-> "noRecords", title |-> summaryTitle(sel)]
                 /\ status' = 200
            ELSE IF \E k \in 1..Len(kept) :
                      logs[kept[k]].main = Undefined \/ logs[kept[k]].tags = Undefined
            THEN aiText' = NoReply /\ status' = 500
            ELSE aiText' = [kind |-> "summary", title |-> summaryTitle(sel),
                            list |-> summaryList(kept), stats |-> summaryStats(kept)]
                 /\ status' = 200
  /\ userText' = text
  /\ path' = "Summary"
  /\ targetLog' = 0
  /\ sheet' = NoSheet
  /\ UNCHANGED <<logs, chatHistory, now, hostOffset, recentHistory, sheetWebhook,
                 tasks>>

(***************************************************************************)
(* The Conversation path, webhook.js:515-538.                              *)
(***************************************************************************)
MaxReplyLength == 1900

\* a slice that keeps the whole array
sliceAll(h, n) == h

\* String.prototype.slice(0, n): the first n characters
sliceFirst(h, n) == IF Len(h) <= n THEN h ELSE SubSeq(h, 1, n)

\* Array.prototype.slice(-n): the last n elements
sliceLast(h, n) == IF Len(h) <= n THEN h ELSE SubSeq(h, Len(h) - n + 1, Len(h))

\* chatHistory.slice(-5), webhook.js:518
HistoryWindow == 5

\* SYSTEM_MESSAGE, or the default persona of webhook.js:525
SystemPersona == <<"persona">>

\* the messages array of the dialogue call, webhook.js:522-528
chatMessages(recent) == <<[role |-> "system", content |-> SystemPersona]>> \o recent

\* a branch whose catch takes the user turn back
ConverseForgets(text, r, cap) ==
  /\ route(text) = "Conversation"
  /\ Len(chatHistory) + 2 <= cap
  /\ LET asked == Append(chatHistory, [role |-> "user", content |-> text])
         replyText == trim(r.content)
     IN  /\ recentHistory' = sliceLast(asked, HistoryWindow)
         /\ IF r.kind = "error"
            THEN chatHistory' = chatHistory /\ aiText' = [kind |-> "busy"]
            ELSE /\ chatHistory' = Append(asked, [role |-> "assistant",
                                                  content |-> replyText])
                 /\ aiText' = [kind |-> "chat",
                               text |-> sliceFirst(replyText, MaxReplyLength)]
  /\ userText' = text
  /\ path' = "Conversation"
  /\ status' = 200
  /\ targetLog' = 0
  /\ rangeLogs' = <<>>
  /\ rangeType' = "none"
  /\ sheet' = NoSheet
  /\ UNCHANGED <<logs, now, hostOffset, sheetWebhook, tasks>>

\* the branch of webhook.js:515-538 for a history of at most cap turns
Converse(text, r, cap) ==
  /\ route(text) = "Conversation"
  /\ Len(chatHistory) + 2 <= cap
  /\ LET asked == Append(chatHistory, [role |-> "user", content |-> text])
         replyText == trim(r.content)
     IN  /\ recentHistory' = sliceLast(asked, HistoryWindow)
         /\ IF r.kind = "error"
            THEN chatHistory' = asked /\ aiText' = [kind |-> "busy"]
            ELSE /\ chatHistory' = Append(asked, [role |-> "assistant",
                                                  content |-> replyText])
                 /\ aiText' = [kind |-> "chat",
                               text |-> sliceFirst(replyText, MaxReplyLength)]
  /\ userText' = text
  /\ path' = "Conversation"
  /\ status' = 200
  /\ targetLog' = 0
  /\ rangeLogs' = <<>>
  /\ rangeType' = "none"
  /\ sheet' = NoSheet
  /\ UNCHANGED <<logs, now, hostOffset, sheetWebhook, tasks>>

ConversationPath(text, r) == Converse(text, r, MaxTurns)

(***************************************************************************)
(* The environment: the clock, the host, the messages users send and the   *)
(* answers of the OpenAI collaborators.                                    *)
(***************************************************************************)
\* wall-clock instants of the reference timezone, UTC+8
TaipeiTime(y, m, d, hh, mm) == MakeLocal(y, m, d, hh, mm, -480)

\* Monday 2025-09-15 at 07:00 and at 09:00, and Tuesday at 00:30
NowValues ==
  { TaipeiTime(2025, 9, 15, 7, 0), TaipeiTime(2025, 9, 15, 9, 0),
    TaipeiTime(2025, 9, 16, 0, 30) }

\* getTimezoneOffset() of a host on UTC, of a host on Asia/Taipei (UTC+8)
\* and of a host on America/Phoenix (UTC-7)
HostOffsets == {0, -480, 420}

TxtWater == <<"jiao1", "hua1">>

TxtMeal == <<"chi1", "fan4">>

UndoTexts ==
  {KwUndo, KwUndo \o <<" ", "x">>}
    \cup {KwUndo \o <<" ">> \o logs[i].timeDisplay : i \in 1..Len(logs)}
    \cup {KwUndo \o <<" ">> \o logs[i].timeISO :
            i \in {k \in 1..Len(logs) : logs[k].timeISO # Null}}

BacklogYesterday ==
  KwBacklog \o <<" ", "zuo2", "tian1", "1", "4", ":", "3", "0", " ">> \o TxtWater

BacklogUndated == KwBacklog \o <<"FW:">> \o TxtWater

BacklogToday ==
  KwBacklog \o <<" ", "jin1", "tian1", "6", "dian3", "ban4", " ">> \o TxtWater

BacklogTomorrow == KwBacklog \o <<" ", "ming2", "tian1", " ", "bu4b", "zhan3">>

SummaryDay == <<"9", "/", "1", "5", " ">> \o KwSummary

SummaryDayWeek == <<"9", "/", "1", "5", " ", "zhou1">> \o KwSummary

SummaryDayMonth == <<"9", "/", "1", "5", " ", "yue4">> \o KwSummary

SummaryWeek == <<"ben3", "zhou1">> \o KwSummary

SummaryMonth == <<"ben3", "yue4">> \o KwSummary

TxtHello == <<"ni3", "hao3">>

ReplyError == [kind |-> "error", content |-> <<>>, main |-> <<>>, tags |-> <<>>]

ReplyText == [kind |-> "ok", content |-> <<"ok", "FW.">>, main |-> <<"F">>, tags |-> <<>>]

Tick ==
  /\ \E t \in NowValues : t > now /\ now' = t
  /\ UNCHANGED <<logs, chatHistory, hostOffset, userText, path, targetLog,
                 rangeLogs, rangeType, aiText, sheet, status, recentHistory,
                 sheetWebhook, tasks>>

\* no request is in flight
NoTasks == <<>>

\* the process after a cold start
Cold(nows, hosts, texts, hooks) ==
  /\ logs = <<>>
  /\ chatHistory = <<>>
  /\ now \in nows
  /\ hostOffset \in hosts
  /\ userText \in texts
  /\ path = "none"
  /\ targetLog = 0
  /\ rangeLogs = <<>>
  /\ rangeType = "none"
  /\ aiText = NoReply
  /\ sheet = NoSheet
  /\ status = 0
  /\ recentHistory = <<>>
  /\ sheetWebhook \in hooks
  /\ tasks = NoTasks

\* a cold start with SHEET_WEBHOOK_URL set and its endpoint reachable
Start(nows, hosts, texts) == Cold(nows, hosts, texts, {"up"})

(***************************************************************************)
(* Spec: a stream of messages to a host on UTC.  Each action is the body   *)
(* of the loop of webhook.js:342-541 for one text event that takes the     *)
(* path of its name.                                                       *)
(***************************************************************************)
Texts ==
  UndoTexts
    \cup {BacklogYesterday, BacklogUndated, TxtMeal, KwSummary, SummaryMonth, TxtHello}

Init == Start({TaipeiTime(2025, 9, 15, 9, 0)}, {0}, {<<>>})

Next ==
  \/ Tick
  \/ \E text \in Texts : UndoPath(text)
  \/ \E text \in Texts : BacklogPath(text, ReplyText, ReplyText, ReplyText)
  \/ \E text \in Texts : InstantPath(text, ReplyText, ReplyText, ReplyText)
  \/ \E text \in Texts : SummaryPath(text)
  \/ \E text \in Texts, r \in {ReplyText, ReplyError} : ConversationPath(text, r)

Spec == Init /\ [][Next]_vars

(***************************************************************************)
(* SpecRoute: one message, made of up to three phrases, to a fresh process.*)
(***************************************************************************)
RoutePhrases ==
  { KwUndo, KwDeletePrevious, KwBacklog, KwSummary, <<"chi1">>, <<"wo3">>,
    <<"zheng4", "zai4">>, <<"wo3", "jue2", "de2">>, <<"FW?">>, <<" ">>, <<"x">> }

RouteTexts ==
  {trim(a \o b \o c) : a \in RoutePhrases, b, c \in RoutePhrases \cup {<<>>}}

InitRoute == Start({TaipeiTime(2025, 9, 15, 9, 0)}, {0}, RouteTexts)

RouteUndo == path = "none" /\ UndoPath(userText)

RouteBacklog ==
  path = "none" /\ \E c \in {ReplyText, ReplyError} :
                     BacklogPath(userText, c, ReplyText, ReplyText)

RouteInstant ==
  path = "none" /\ \E c \in {ReplyText, ReplyError} :
                     InstantPath(userText, c, ReplyText, ReplyText)

RouteSummary == path = "none" /\ SummaryPath(userText)

RouteConversation ==
  path = "none" /\ \E r \in {ReplyText, ReplyError} : ConversationPath(userText, r)

NextRoute ==
  RouteUndo \/ RouteBacklog \/ RouteInstant \/ RouteSummary \/ RouteConversation

SpecRoute == InitRoute /\ [][NextRoute]_vars

(***************************************************************************)
(* SpecSummary: logs and summary requests on either host around midnight.  *)
(***************************************************************************)
SummaryRunTexts ==
  { BacklogToday, BacklogTomorrow, TxtMeal, KwSummary, SummaryWeek, SummaryMonth,
    SummaryDay, SummaryDayWeek, SummaryDayMonth }

InitSummary == Start(NowValues, HostOffsets, {<<>>})

NextSummary ==
  \/ Tick
  \/ \E text \in SummaryRunTexts : BacklogPath(text, ReplyText, ReplyText, ReplyText)
  \/ \E text \in SummaryRunTexts : InstantPath(text, ReplyText, ReplyText, ReplyText)
  \/ \E text \in SummaryRunTexts : SummaryPath(text)

SpecSummary == InitSummary /\ [][NextSummary]_vars

(***************************************************************************)
(* SpecCollab: the answers of the classification collaborator range over   *)
(* what JSON.parse of webhook.js:222 can yield; the other collaborators    *)
(* answer or fail.                                                         *)
(***************************************************************************)
\* the six module labels of the prompt, webhook.js:209
Modules == {"A", "B", "C", "D", "E", "F"}

\* the tag labels of the prompt, webhook.js:210, and of the keyword rules,
\* webhook.js:194 and 197
TagVocabulary ==
  {"create", "transit", "admin", "finance", "sns", "food", "health", "social",
   "rest", "other", "tidy"}

\* the content is no JSON text
AnswerNotJson == [kind |-> "notjson", content |-> <<"x">>, main |-> <<>>, tags |-> <<>>]

\* the content is the JSON text null
AnswerNull == [kind |-> "null", content |-> <<>>, main |-> <<>>, tags |-> <<>>]

\* the content is a JSON object without main and tags
AnswerNoMain == [kind |-> "nomain", content |-> <<>>, main |-> <<>>, tags |-> <<>>]

\* JSON objects with both arrays
AnswerTwoModules ==
  [kind |-> "ok", content |-> <<>>, main |-> <<"A", "F">>, tags |-> <<"food">>]

AnswerRepeated == [kind |-> "ok", content |-> <<>>, main |-> <<"F", "F">>, tags |-> <<>>]

AnswerNoModule == [kind |-> "ok", content |-> <<>>, main |-> <<>>, tags |-> <<>>]

AnswerUnknown == [kind |-> "ok", content |-> <<>>, main |-> <<"Z">>, tags |-> <<"zz">>]

ClassifierAnswers ==
  { ReplyText, ReplyError, AnswerNotJson, AnswerNull, AnswerNoMain, AnswerTwoModules,
    AnswerRepeated, AnswerNoModule, AnswerUnknown }

\* the answers to classifyStateLog, summarizeEvent and generateShortPhrase
CollabAnswers ==
  {<<c, ReplyText, ReplyText>> : c \in ClassifierAnswers}
    \cup {<<ReplyText, ReplyError, ReplyError>>}

CollabTexts == {TxtMeal, BacklogUndated, KwUndo, KwSummary, TxtHello}

InitCollab == Start({TaipeiTime(2025, 9, 15, 9, 0)}, {0}, {<<>>})

NextCollab ==
  \/ \E text \in CollabTexts : UndoPath(text)
  \/ \E text \in CollabTexts, a \in CollabAnswers : BacklogPath(text, a[1], a[2], a[3])
  \/ \E text \in CollabTexts, a \in CollabAnswers : InstantPath(text, a[1], a[2], a[3])
  \/ \E text \in CollabTexts : SummaryPath(text)
  \/ \E text \in CollabTexts, r \in {ReplyText, ReplyError} : ConversationPath(text, r)

SpecCollab == InitCollab /\ [][NextCollab]_vars

(***************************************************************************)
(* SpecParse: one backlog message whose content holds a day, a month/day   *)
(* pattern and a time of day, in and out of the calendar and clock ranges. *)
(***************************************************************************)
ParseDays ==
  { <<>>, <<"jin1", "tian1">>, <<"zuo2", "tian1">>, <<"9", "/", "1", "4">>,
    <<"2", "/", "3", "0">>, <<"1", "3", "/", "4", "5">> }

ParseTimes ==
  { <<>>, <<"1", "4", ":", "3", "0">>, <<"6", "dian3", "ban4">>,
    <<"2", "4", ":", "0", "0">>, <<"2", "5", ":", "0", "0">>,
    <<"9", ":", "7", "5">>,
    <<"1", "4", ":", "0", "0", "-", "1", "5", ":", "0", "0">> }

ParseTexts ==
  {KwBacklog \o <<" ">> \o d \o <<" ">> \o t \o <<" ">> \o TxtWater :
     d \in ParseDays, t \in ParseTimes}

InitParse == Start(NowValues, HostOffsets, ParseTexts)

ParseBacklog == path = "none" /\ BacklogPath(userText, ReplyText, ReplyText, ReplyText)

NextParse == ParseBacklog

SpecParse == InitParse /\ [][NextParse]_vars

(***************************************************************************)
(* SpecChat: a long run of conversation messages.                          *)
(***************************************************************************)
TxtThanks == <<"xie4", "xie4">>

ChatTexts == {TxtHello, TxtThanks}

InitChat == Start({TaipeiTime(2025, 9, 15, 9, 0)}, {0}, {<<>>})

NextChat ==
  \E text \in ChatTexts, r \in {ReplyText, ReplyError} : Converse(text, r, MaxChat)

SpecChat == InitChat /\ [][NextChat]_vars

(***************************************************************************)
(* SpecDialogue: a long run of conversation messages; the dialogue         *)
(* collaborator fails or answers with a short text, a text with blanks     *)
(* around it, or a text of the outbound maximum length, one character less *)
(* or one more.                                                            *)
(***************************************************************************)
ReplyPadded ==
  [kind |-> "ok", content |-> <<" ", "ok", " ", "LF">>, main |-> <<>>, tags |-> <<>>]

\* an answer of n characters with a blank after them
ReplyOfLength(n) ==
  [kind |-> "ok", content |-> [i \in 1..(n + 1) |-> IF i <= n THEN "x" ELSE " "],
   main |-> <<>>, tags |-> <<>>]

DialogueAnswers ==
  { ReplyText, ReplyError, ReplyPadded, ReplyOfLength(MaxReplyLength - 1),
    ReplyOfLength(MaxReplyLength), ReplyOfLength(MaxReplyLength + 1) }

NextDialogue == \E r \in DialogueAnswers : Converse(TxtHello, r, MaxChat)

SpecDialogue == InitChat /\ [][NextDialogue]_vars

(***************************************************************************)
(* SpecSheet: the persistence webhook is not set, or set with its endpoint *)
(* reachable or not; the endpoint may go down and come back.               *)
(***************************************************************************)
SheetStates == {"unset", "up", "down"}

SheetTexts == {TxtMeal, BacklogUndated, KwUndo, KwSummary, TxtHello}

InitSheet == Cold({TaipeiTime(2025, 9, 15, 9, 0)}, {0}, {<<>>}, SheetStates)

SheetEndpoint ==
  /\ sheetWebhook # "unset"
  /\ sheetWebhook' = IF sheetWebhook = "up" THEN "down" ELSE "up"
  /\ UNCHANGED <<logs, chatHistory, now, hostOffset, userText, path, targetLog,
                 rangeLogs, rangeType, aiText, sheet, status, recentHistory, tasks>>

NextSheet ==
  \/ SheetEndpoint
  \/ \E text \in SheetTexts : UndoPath(text)
  \/ \E text \in SheetTexts, c \in {ReplyText, AnswerNoMain, AnswerNull} :
       BacklogPath(text, c, ReplyText, ReplyText)
  \/ \E text \in SheetTexts, c \in {ReplyText, AnswerNoMain, AnswerNull} :
       InstantPath(text, c, ReplyText, ReplyText)
  \/ \E text \in SheetTexts : SummaryPath(text)
  \/ \E text \in SheetTexts : ConversationPath(text, ReplyText)

SpecSheet == InitSheet /\ [][NextSheet]_vars

(***************************************************************************)
(* The handler await by await, webhook.js:322-549.  An invocation of the   *)
(* handler is a task: it runs without interruption up to an await, is      *)
(* suspended there, and runs on when the awaited call settles.  The pc of  *)
(* a task names the call it awaits: "classify" (line 390/422), "summarize" *)
(* (391/423), "phrase" (392/424), "sheet" (372/405/437), "chat" (520),     *)
(* "reply" (540); "done" when the response was ended, "blocked" when the   *)
(* call it awaits never settles.  An event of the request body is a text   *)
(* message ("text"), a message of type text without a text field           *)
(* ("notext") or anything else ("other").  The field sent of a task lists  *)
(* the outcomes of its calls of lineReply: "ok", "notOk" (the channel      *)
(* answered with an error status) or "threw" (the request could not be     *)
(* made).  A task serves one request, so                                   *)
(* the runs of a set of tasks are finite without a bound on the store.     *)
(***************************************************************************)
NoTime == [display |-> <<>>, iso |-> Null, threw |-> FALSE]

NoCategory == [main |-> <<>>, tags |-> <<>>, isNull |-> FALSE]

\* no request
NoRequest == [method |-> "none", secret |-> Null, signature |-> Null, events |-> <<>>]

\* a task that received no request yet
Idle ==
  [pc |-> "idle", request |-> NoRequest, batch |-> <<>>, pos |-> 0, path |-> "none", content |-> <<>>,
   t |-> NoTime, category |-> NoCategory, summary |-> <<>>, phrase |-> <<>>,
   target |-> 0, aiText |-> NoReply, replies |-> <<>>, sent |-> <<>>, status |-> 0]

TextEvent(text) == [kind |-> "text", text |-> text]

NoTextEvent == [kind |-> "notext", text |-> <<>>]

OtherEvent == [kind |-> "other", text |-> <<>>]

\* a call that never settles
ReplyNever == [kind |-> "never", content |-> <<>>, main |-> <<>>, tags |-> <<>>]

\* the channel answers the reply request with an error status
ReplyRefused == [kind |-> "refused", content |-> <<>>, main |-> <<>>, tags |-> <<>>]

\* what lineReply returns, webhook.js:53-58: resp.ok, after the error of a
\* response that is not ok was logged
lineReply(r) == IF r.kind = "refused" THEN "notOk" ELSE "ok"

\* what a run of the task up to its next await leaves behind
Out(tk, lg, ch) == [task |-> tk, logs |-> lg, chat |-> ch]

\* a catch that takes back the entry whose reply could not be sent
ThrowRollback(tk) ==
  Out([tk EXCEPT !.pc = "done", !.status = 500],
      IF tk.pc = "reply" /\ tk.path \in {"Backlog", "InstantLog"}
      THEN SubSeq(logs, 1, tk.target - 1) \o SubSeq(logs, tk.target + 1, Len(logs))
      ELSE logs,
      chatHistory)

\* an exception reaches the catch of webhook.js:545-547
Throw(tk) == Out([tk EXCEPT !.pc = "done", !.status = 500], logs, chatHistory)

\* a reply of the Undo path that clears the conversation history
CallReplyResets(tk, ai, lg, ch) ==
  Out([tk EXCEPT !.pc = "reply", !.aiText = ai, !.replies = Append(@, tk.pos)], lg,
      IF tk.path = "Undo" THEN <<>> ELSE ch)

\* the call of lineReply for the event at hand, webhook.js:540
CallReply(tk, ai, lg, ch) ==
  Out([tk EXCEPT !.pc = "reply", !.aiText = ai, !.replies = Append(@, tk.pos)], lg, ch)

\* the reply of the Summary branch for the selection sel and the entries
\* kept, webhook.js:485-512; NoReply when join or forEach is called on an
\* undefined main or tags
summaryOfKept(sel, kept) ==
  IF kept = <<>> THEN [kind |-> "noRecords", title |-> summaryTitle(sel)]
  ELSE IF \E k \in 1..Len(kept) :
            logs[kept[k]].main = Undefined \/ logs[kept[k]].tags = Undefined
  THEN NoReply
  ELSE [kind |-> "summary", title |-> summaryTitle(sel),
        list |-> summaryList(kept), stats |-> summaryStats(kept)]

\* the reply of the Summary branch, webhook.js:450-512
summaryReply(text) ==
  summaryOfKept(selectRange(text), filterRange(summaryRange(selectRange(text))))

\* the branch of the loop body taken for a text event, up to its first
\* await, webhook.js:349-540: on is the task with its path set, i the entry
\* Undo finds, content and t the text and the time of a Backlog entry,
\* reply the reply of Summary
StartBranch(on, text, i, content, t, reply) ==
  IF on.path = "Undo"
  THEN IF i > 0
       THEN Out([on EXCEPT !.target = i, !.pc = "sheet"], softDelete(i), chatHistory)
       ELSE CallReply(on, [kind |-> "nothingToUndo"], logs, chatHistory)
  ELSE IF on.path = "Backlog"
  THEN IF t.threw THEN Throw(on)
       ELSE Out([on EXCEPT !.content = content, !.t = t, !.pc = "classify"],
                logs, chatHistory)
  ELSE IF on.path = "InstantLog"
  THEN Out([on EXCEPT !.content = text,
                      !.t = [display |-> nowTaipeiDisplay, iso |-> nowUtcISO,
                             threw |-> FALSE],
                      !.pc = "classify"], logs, chatHistory)
  ELSE IF on.path = "Summary"
  THEN IF reply = NoReply THEN Throw(on) ELSE CallReply(on, reply, logs, chatHistory)
  ELSE Out([on EXCEPT !.content = text, !.pc = "chat"], logs,
           Append(chatHistory, [role |-> "user", content |-> text]))

\* the body of the loop for one text event up to its first await,
\* webhook.js:344-540
StartEvent(tk, text) ==
  StartBranch([tk EXCEPT !.path = route(text)], text, undoTarget(text),
              stripBacklogMarker(text),
              parseDateTimeDetailed(stripBacklogMarker(text)), summaryReply(text))

\* the loop of webhook.js:342-544 from the event at tk.pos on, up to the
\* first await: events that are no text messages are passed over, a text
\* message without text throws at line 344, the end of the loop ends the
\* response with status 200
RECURSIVE RunFrom(_)
RunFrom(tk) ==
  IF tk.pos > Len(tk.batch)
  THEN Out([tk EXCEPT !.pc = "done", !.status = 200], logs, chatHistory)
  ELSE IF tk.batch[tk.pos].kind = "other" THEN RunFrom([tk EXCEPT !.pos = @ + 1])
  ELSE IF tk.batch[tk.pos].kind = "notext" THEN Throw(tk)
  ELSE StartEvent(tk, trim(tk.batch[tk.pos].text))

\* classifyStateLog answers from its keyword rules, webhook.js:193-198
keywordRule(text) ==
  \/ \E kw \in galleryKeywords : includes(text, kw)
  \/ includes(text, <<"ban4o", "gong1", "shi4b">>)
       /\ \E kw \in officeActions : includes(text, kw)
  \/ includes(text, <<"xi3", "yi1b", "dian4">>)

\* the awaited call of the task is one that r can leave unsettled
Pending(tk, r) ==
  /\ r.kind = "never"
  /\ tk.pc = "classify" => ~keywordRule(tk.content)
  /\ tk.pc = "sheet" => sheetWebhook # "unset"

\* the task runs on from its await, settled with r, up to its next await
Resume(tk, r) ==
  IF Pending(tk, r) THEN Out([tk EXCEPT !.pc = "blocked"], logs, chatHistory)
  ELSE IF tk.pc = "classify"
  THEN Out([tk EXCEPT !.category = classifyStateLog(tk.content, r),
                       !.pc = "summarize"], logs, chatHistory)
  ELSE IF tk.pc = "summarize"
  THEN Out([tk EXCEPT !.summary = summarizeEvent(tk.content, r), !.pc = "phrase"],
           logs, chatHistory)
  ELSE IF tk.pc = "phrase"
  THEN IF tk.category.isNull THEN Throw(tk)
       ELSE Out([tk EXCEPT !.target = Len(logs) + 1, !.pc = "sheet",
                           !.phrase = generateShortPhrase(tk.content,
                                                          tk.path = "Backlog", r)],
                Append(logs, logItem(IF tk.path = "Backlog" THEN "backlog" ELSE "instant",
                                     tk.t.iso, tk.t.display, tk.summary, tk.category)),
                chatHistory)
  ELSE IF tk.pc = "sheet"
  THEN IF tk.path = "Undo"
       THEN CallReply(tk, undoReply(logs[tk.target]), logs, chatHistory)
       ELSE IF tk.category.main = Undefined \/ tk.category.tags = Undefined
       THEN Throw(tk)
       ELSE CallReply(tk, logReply(IF tk.path = "Backlog" THEN "backlog" ELSE "instant",
                                   logs[tk.target], tk.phrase), logs, chatHistory)
  ELSE IF tk.pc = "chat"
  THEN IF r.kind = "error" THEN CallReply(tk, [kind |-> "busy"], logs, chatHistory)
       ELSE CallReply(tk, [kind |-> "chat",
                           text |-> sliceFirst(trim(r.content), MaxReplyLength)],
                      logs,
                      Append(chatHistory, [role |-> "assistant",
                                           content |-> trim(r.content)]))
  ELSE IF r.kind = "error" THEN Throw([tk EXCEPT !.sent = Append(@, "threw")])
  ELSE RunFrom([tk EXCEPT !.pos = @ + 1, !.sent = Append(@, lineReply(r))])

\* the effect of a run of task id on the process
Apply(id, out) ==
  /\ tasks' = [tasks EXCEPT ![id] = out.task]
  /\ logs' = out.logs
  /\ chatHistory' = out.chat
  /\ UNCHANGED <<now, hostOffset, userText, path, targetLog, rangeLogs, rangeType,
                 aiText, sheet, status, recentHistory, sheetWebhook>>

\* the HMAC-SHA256 of the raw body under the secret, in base64: a value
\* that names the two (collisions of the digest are left out)
hmac(secret, rawBody) == <<"hmac", secret, rawBody>>

\* a check of the presence of secret and signature only
verifyLineSignatureAny(req) ==
  ~(req.secret = Null \/ req.secret = <<>> \/ req.signature = Null
    \/ req.signature = <<>>)

\* webhook.js:33-39; req.secret is LINE_CHANNEL_SECRET of the process,
\* req.signature the x-line-signature header, Null when there is none
verifyLineSignature(req) ==
  IF req.secret = Null \/ req.secret = <<>> \/ req.signature = Null
     \/ req.signature = <<>>
  THEN FALSE
  ELSE hmac(req.secret, req.events) = req.signature

\* a request reaches the handler, webhook.js:322-340: a method other than
\* POST ends with 405, a signature that does not verify with 403, else the
\* body is parsed and the loop starts
Receive(id, req) ==
  /\ tasks[id].pc = "idle"
  /\ Apply(id, IF req.method # "POST"
               THEN Out([Idle EXCEPT !.request = req, !.pc = "done", !.status = 405],
                        logs, chatHistory)
               ELSE IF ~verifyLineSignature(req)
               THEN Out([Idle EXCEPT !.request = req, !.pc = "done", !.status = 403],
                        logs, chatHistory)
               ELSE RunFrom([Idle EXCEPT !.request = req, !.batch = req.events,
                                         !.pos = 1]))

\* the call a task awaits settles with r
Settle(id, r) ==
  /\ tasks[id].pc \in {"classify", "summarize", "phrase", "sheet", "chat", "reply"}
  /\ Apply(id, Resume(tasks[id], r))

ChannelSecret == <<"s">>

\* a signed POST with the events given
Post(events) ==
  [method |-> "POST", secret |-> ChannelSecret,
   signature |-> hmac(ChannelSecret, events), events |-> events]

\* requests with a log message that do not pass: a GET; a POST without
\* signature, with an empty one, with one made with another secret or for
\* another body; a POST to a process without channel secret
BadRequests ==
  LET good == Post(<<TextEvent(TxtMeal)>>)
  IN  { [good EXCEPT !.method = "GET"],
        [good EXCEPT !.signature = Null],
        [good EXCEPT !.signature = <<>>],
        [good EXCEPT !.signature = hmac(<<"z">>, good.events)],
        [good EXCEPT !.signature = hmac(ChannelSecret, <<TextEvent(TxtHello)>>)],
        [good EXCEPT !.secret = Null],
        [good EXCEPT !.secret = Null, !.signature = Null] }

\* the process after a cold start, able to serve the requests of ids
ColdTasks(ids) ==
  /\ logs = <<>>
  /\ chatHistory = <<>>
  /\ now = TaipeiTime(2025, 9, 15, 9, 0)
  /\ hostOffset = 0
  /\ userText = <<>>
  /\ path = "none"
  /\ targetLog = 0
  /\ rangeLogs = <<>>
  /\ rangeType = "none"
  /\ aiText = NoReply
  /\ sheet = NoSheet
  /\ status = 0
  /\ recentHistory = <<>>
  /\ sheetWebhook = "up"
  /\ tasks = [id \in ids |-> Idle]

(***************************************************************************)
(* SpecBatch: one request with up to three events.                         *)
(***************************************************************************)
BatchEvents ==
  {TextEvent(TxtMeal), TextEvent(KwUndo), TextEvent(KwSummary), TextEvent(TxtHello),
   NoTextEvent, OtherEvent}

Batches ==
  {<<a>> : a \in BatchEvents}
    \cup {<<a, b>> : a, b \in BatchEvents}
    \cup {<<a, b, c>> : a, b, c \in BatchEvents}

InitBatch == ColdTasks({"a"})

NextBatch ==
  \/ \E req \in {Post(b) : b \in Batches} \cup BadRequests : Receive("a", req)
  \/ Settle("a", ReplyText)

SpecBatch == InitBatch /\ [][NextBatch]_vars

(***************************************************************************)
(* SpecOverlap: two requests of one event each reach the same process; the *)
(* second may arrive while the first is suspended.                         *)
(***************************************************************************)
OverlapTexts == {TxtMeal, BacklogUndated, KwUndo, KwSummary, TxtHello}

TaskIds == {"a", "b"}

InitOverlap == ColdTasks(TaskIds)

NextOverlap ==
  \/ \E id \in DOMAIN tasks, text \in OverlapTexts : Receive(id, Post(<<TextEvent(text)>>))
  \/ \E id \in DOMAIN tasks : Settle(id, ReplyText)

SpecOverlap == InitOverlap /\ [][NextOverlap]_vars

(***************************************************************************)
(* SpecLive: as SpecOverlap, and a call may never settle.  The event loop  *)
(* of the runtime runs every task that can run: weak fairness of the next- *)
(* state relation.                                                         *)
(***************************************************************************)
NextLive ==
  \/ \E id \in DOMAIN tasks, text \in OverlapTexts : Receive(id, Post(<<TextEvent(text)>>))
  \/ \E id \in DOMAIN tasks, r \in {ReplyText, ReplyNever} : Settle(id, r)

SpecLive == InitOverlap /\ [][NextLive]_vars /\ WF_vars(NextLive)

(***************************************************************************)
(* SpecClassify: one request with one log message that holds a gallery     *)
(* keyword, the office rule, both or neither; each awaited call settles    *)
(* with any answer of the classification collaborator, or never.           *)
(***************************************************************************)
\* "zuo4 wang3 zhan4" (gallery), "ban4o gong1 shi4b da3 sao3" (office with
\* an action), "xi3 yi1b dian4" (laundry), "dao4 ban4o gong1 shi4b" (office
\* without action), each as an instant and as a backlog message
ClassifyTexts ==
  LET gallery == <<"zuo4", "wang3", "zhan4">>
      office  == <<"ban4o", "gong1", "shi4b", "da3", "sao3">>
      laundry == <<"xi3", "yi1b", "dian4">>
      plain   == { <<"dao4", "ban4o", "gong1", "shi4b">>, TxtMeal }
      said    == { gallery, office, laundry, gallery \o office, office \o gallery,
                   laundry \o gallery } \cup plain
  IN  said \cup {KwBacklog \o <<" ">> \o c : c \in said}

NextClassify ==
  \/ \E text \in ClassifyTexts : Receive("a", Post(<<TextEvent(text)>>))
  \/ \E r \in ClassifierAnswers \cup {ReplyNever} : Settle("a", r)

SpecClassify == InitBatch /\ [][NextClassify]_vars

(***************************************************************************)
(* SpecUndoRace: three requests reach the same process and may overlap:    *)
(* each logs two entries or is an Undo request, with or without the        *)
(* timestamp of the entries.                                               *)
(***************************************************************************)
RaceIds == {"a", "b", "c"}

RaceBatches ==
  { <<TextEvent(TxtMeal), TextEvent(TxtMeal)>>,
    <<TextEvent(KwUndo)>>, <<TextEvent(KwUndo \o <<" ">> \o nowUtcISO)>> }

InitUndoRace == ColdTasks(RaceIds)

NextUndoRace ==
  \/ \E id \in RaceIds, b \in RaceBatches : Receive(id, Post(b))
  \/ \E id \in RaceIds : Settle(id, ReplyText)

SpecUndoRace == InitUndoRace /\ [][NextUndoRace]_vars

(***************************************************************************)
(* SpecReply: one request with one to three events; the reply request of   *)
(* an event is answered, is refused by the channel with an error status,   *)
(* or cannot be made.                                                      *)
(***************************************************************************)
ReplyEvents ==
  {TextEvent(TxtMeal), TextEvent(BacklogUndated), TextEvent(KwUndo), TextEvent(TxtHello)}

ReplyBatches ==
  {<<a>> : a \in ReplyEvents}
    \cup {<<a, b>> : a, b \in ReplyEvents}
    \cup {<<a, b, c>> : a, b, c \in ReplyEvents}

\* what the call a task awaits can settle with: the fetch of lineReply is
\* answered, refused or rejects; the other calls resolve
ReplyAnswers(tk) ==
  IF tk.pc = "reply" THEN {ReplyText, ReplyRefused, ReplyError} ELSE {ReplyText}

NextReply ==
  \/ \E b \in ReplyBatches : Receive("a", Post(b))
  \/ \E r \in ReplyAnswers(tasks["a"]) : Settle("a", r)

SpecReply == InitBatch /\ [][NextReply]_vars

(***************************************************************************)
(* SpecGate: two requests, each a signed POST with a log message or a      *)
(* conversation message, or a request that does not pass the checks of     *)
(* webhook.js:324-338.                                                     *)
(***************************************************************************)
NextGate ==
  \/ \E id \in TaskIds, text \in {TxtMeal, TxtHello} :
       Receive(id, Post(<<TextEvent(text)>>))
  \/ \E id \in TaskIds, req \in BadRequests : Receive(id, req)
  \/ \E id \in TaskIds : Settle(id, ReplyText)

SpecGate == InitOverlap /\ [][NextGate]_vars

(***************************************************************************)
(* SpecTime: one message to a fresh process, on either host, at instants   *)
(* next to a month end, a leap day and a year end.  A backlog message      *)
(* holds relative-day words, a vague-time marker, a month/day pattern and  *)
(* a clock time in every combination.                                      *)
(***************************************************************************)
\* Mon 2025-09-15 09:00; Sat 2025-03-01 09:00 (after 28 February); Fri
\* 2024-03-01 23:30 (after 29 February); Wed 2025-12-31 20:00; Thu
\* 2026-01-01 00:30
TimeNows ==
  { TaipeiTime(2025, 9, 15, 9, 0), TaipeiTime(2025, 3, 1, 9, 0),
    TaipeiTime(2024, 3, 1, 23, 30), TaipeiTime(2025, 12, 31, 20, 0),
    TaipeiTime(2026, 1, 1, 0, 30) }

\* relative-day words (one, or two in either order), a vague-time marker,
\* a month/day pattern (in or out of the calendar) and a clock time, each
\* present or absent; and one message for each of the other paths
TimeTexts ==
  LET days   == { <<>>, <<"jin1", "tian1">>, <<"zuo2", "tian1">>, <<"qian2", "tian1">>,
                  <<"ming2", "tian1">>, <<"jin1", "tian1", "zuo2", "tian1">>,
                  <<"zuo2", "tian1", "qian2", "tian1">>,
                  <<"ming2", "tian1", "jin1", "tian1">> }
      vague  == {<<>>, <<"yue1">>, <<"da4", "yue1">>}
      dates  == {<<>>, <<"1", "2", "/", "3", "1">>, <<"1", "3", "/", "4", "5">>}
      clocks == {<<>>, <<"1", "4", ":", "3", "0">>}
  IN  {KwBacklog \o <<" ">> \o d \o v \o <<" ">> \o md \o <<" ">> \o t \o <<" ">>
         \o TxtWater : d \in days, v \in vague, md \in dates, t \in clocks}
        \cup {TxtMeal, KwUndo, KwSummary, TxtHello}

InitTime == Start(TimeNows, HostOffsets, TimeTexts)

SpecTime == InitTime /\ [][NextRoute]_vars

(***************************************************************************)
(* SpecCal: entries dated by an explicit month/day around the week of      *)
(* Monday 15 to Sunday 21 September 2025, and summaries of the day and of  *)
(* the week asked on either host on the Monday, the Thursday and the       *)
(* Sunday of that week.                                                    *)
(***************************************************************************)
CalNows ==
  { TaipeiTime(2025, 9, 15, 0, 30), TaipeiTime(2025, 9, 15, 9, 0),
    TaipeiTime(2025, 9, 15, 23, 30), TaipeiTime(2025, 9, 18, 12, 0),
    TaipeiTime(2025, 9, 21, 7, 30), TaipeiTime(2025, 9, 21, 23, 30) }

\* backlog messages dated Sunday 14 (00:00 and 23:30), Monday 15 07:00,
\* Sunday 21 23:30 and Monday 22 00:30, an undated one, an undo, and the
\* requests for the day and for the week
CalTexts ==
  LET dated == { <<"9", "/", "1", "4">>,
                 <<"9", "/", "1", "4", " ", "2", "3", ":", "3", "0">>,
                 <<"9", "/", "1", "5", " ", "7", ":", "0", "0">>,
                 <<"9", "/", "2", "1", " ", "2", "3", ":", "3", "0">>,
                 <<"9", "/", "2", "2", " ", "0", ":", "3", "0">> }
  IN  {KwBacklog \o <<" ">> \o d \o <<" ">> \o TxtWater : d \in dated}
        \cup {BacklogUndated, KwUndo, KwSummary, SummaryWeek}

InitCal == Start(CalNows, HostOffsets, {<<>>})

NextCal ==
  \/ \E text \in CalTexts : UndoPath(text)
  \/ \E text \in CalTexts : BacklogPath(text, ReplyText, ReplyText, ReplyText)
  \/ \E text \in CalTexts : SummaryPath(text)

SpecCal == InitCal /\ [][NextCal]_vars

(***************************************************************************)
(* Claims.                                                                 *)
(***************************************************************************)
\* a step that handles an event (every path sets path; only Tick moves now)
EventStep(p) == now' = now /\ path' = p

\* the first path that matches in the order of the specification
FirstMatch(text) ==
  IF isUndoRequest(text) THEN "Undo"
  ELSE IF isBacklogMessage(text) THEN "Backlog"
  ELSE IF isSummaryRequest(text) THEN "Summary"
  ELSE IF isLogCandidate(text) THEN "InstantLog"
  ELSE "Conversation"

\* C1: every trimmed text is handled by exactly one of the five paths, and
\* it is the first that matches in the order Undo, Backlog, Summary,
\* InstantLog, Conversation: before the event is handled exactly that path
\* is enabled, and once handled the path taken is that one.
C1_FirstMatchWins ==
  /\ path # "none" => path = FirstMatch(userText)
  /\ path = "none" =>
       /\ (ENABLED RouteUndo) <=> (FirstMatch(userText) = "Undo")
       /\ (ENABLED RouteBacklog) <=> (FirstMatch(userText) = "Backlog")
       /\ (ENABLED RouteSummary) <=> (FirstMatch(userText) = "Summary")
       /\ (ENABLED RouteInstant) <=> (FirstMatch(userText) = "InstantLog")
       /\ (ENABLED RouteConversation) <=> (FirstMatch(userText) = "Conversation")

\* a message that starts with the backlog marker and also holds the summary
\* keyword and an action verb was handled as a backlog
C1_Witness ==
  /\ path = "Backlog"
  /\ isSummaryRequest(userText)
  /\ \E v \in verbs : includes(userText, v)

\* C2: a message with the summary keyword, no undo token and no leading
\* backlog marker is routed to Summary and appends no entry (the store of
\* the fresh process stays empty and nothing is sent to the sheet), also
\* when it holds an action verb, starts with the first-person marker or
\* holds an aspectual marker.
C2_SummaryBeatsVerbs ==
  (/\ path # "none"
   /\ includes(userText, KwSummary)
   /\ ~isUndoRequest(userText)
   /\ ~startsWith(userText, KwBacklog))
  => (path = "Summary" /\ logs = <<>> /\ sheet = NoSheet)

C2_Witness ==
  /\ path = "Summary"
  /\ logs = <<>>
  /\ \E v \in verbs : includes(userText, v)
  /\ startsWith(userText, <<"wo3">>)

\* C3: no step removes an entry from the store: the length never decreases,
\* every entry keeps its position, and the only change to an entry is the
\* deleted flag set by the Undo path.
C3_NeverRemoved ==
  [][/\ Len(logs') >= Len(logs)
     /\ \A i \in 1..Len(logs) :
          \/ logs'[i] = logs[i]
          \/ path' = "Undo" /\ logs'[i] = [logs[i] EXCEPT !.deleted = TRUE]]_vars

C3_Witness ==
  /\ path = "Undo"
  /\ Len(logs) = 2
  /\ targetLog = 1
  /\ logs[1].deleted
  /\ ~logs[2].deleted

\* the entries that were not deleted before the Undo step that led to the
\* state, and that the token of userText names
HasToken == splitLength(userText) > 1

Token == trim(splitPart1(userText))

NamedByToken ==
  {i \in 1..Len(logs) :
     /\ HasToken
     /\ ~logs[i].deleted \/ i = targetLog
     /\ \/ logs[i].timeISO # Null /\ logs[i].timeISO = Token
        \/ logs[i].timeDisplay = Token}

\* C4 as claimed: when the token of an Undo names several entries that are
\* not deleted, the entry soft-deleted is the most recent of them.
C4_MostRecentNamed ==
  (path = "Undo" /\ Cardinality(NamedByToken) > 1)
  => \A i \in NamedByToken : i <= targetLog

\* C4, amended: when the token of an Undo names several entries that are not
\* deleted, the entry soft-deleted is the oldest of them, the one that was
\* appended first.
C4_OldestNamed ==
  (path = "Undo" /\ Cardinality(NamedByToken) > 1)
  => (targetLog \in NamedByToken /\ \A i \in NamedByToken : targetLog <= i)

C4_Witness ==
  /\ path = "Undo"
  /\ NamedByToken = {1, 2}
  /\ targetLog = 1
  /\ logs[1].deleted /\ ~logs[2].deleted

\* C5: an Undo made of the undo keyword, a space and the timeDisplay of an
\* entry that is not deleted (and that no other entry shares) soft-deletes
\* that entry and no other.
C5_UndoByDisplay ==
  path = "Undo" =>
    \A i \in 1..Len(logs) :
      (/\ userText = KwUndo \o <<" ">> \o logs[i].timeDisplay
       /\ ~logs[i].deleted \/ i = targetLog
       /\ \A j \in 1..Len(logs) : j # i => logs[j].timeDisplay # logs[i].timeDisplay)
      => targetLog = i

C5_Reached ==
  /\ path = "Undo"
  /\ Len(logs) = 2
  /\ userText = KwUndo \o <<" ">> \o logs[1].timeDisplay
  /\ logs[1].timeDisplay # logs[2].timeDisplay
  /\ targetLog = 2

\* the most recent entry of the store before the step that is not deleted,
\* 0 if there is none
MostRecentLive ==
  LET live == {i \in 1..Len(logs) : ~logs[i].deleted}
  IN  IF live = {} THEN 0 ELSE CHOOSE i \in live : \A j \in live : j <= i

\* the token of the text names an entry of the store before the step
TokenNamesLive(text) ==
  /\ splitLength(text) > 1
  /\ \E i \in 1..Len(logs) :
       /\ ~logs[i].deleted
       /\ \/ logs[i].timeISO # Null /\ logs[i].timeISO = trim(splitPart1(text))
          \/ logs[i].timeDisplay = trim(splitPart1(text))

\* C6: an Undo with no token, or with a token that names no entry that is
\* not deleted, soft-deletes the most recent entry that is not deleted; in
\* the sequential stream an Undo without token right after a Backlog or
\* Instant message that succeeded soft-deletes the entry that message made.
C6_FallbackMostRecent ==
  [][(EventStep("Undo") /\ ~TokenNamesLive(userText'))
     => /\ targetLog' = MostRecentLive
        /\ (MostRecentLive > 0 => logs' = [logs EXCEPT ![MostRecentLive].deleted = TRUE])
        /\ (path \in {"Backlog", "InstantLog"} /\ status = 200 /\ splitLength(userText') = 1)
           => (targetLog' = Len(logs) /\ logs'[Len(logs)].deleted)]_vars

\* an Undo whose token names nothing removed the second entry while the
\* first is still live
C6_Witness ==
  /\ path = "Undo"
  /\ userText = KwUndo \o <<" ", "x">>
  /\ targetLog = 2
  /\ ~logs[1].deleted /\ logs[2].deleted

\* C7: an Undo on a store that is empty or whose entries are all deleted
\* replies with the fixed "nothing to undo" text, leaves the store as it is
\* and sends nothing to the sheet.
C7_NothingToUndo ==
  [][(EventStep("Undo") /\ \A i \in 1..Len(logs) : logs[i].deleted)
     => /\ aiText' = [kind |-> "nothingToUndo"]
        /\ logs' = logs
        /\ sheet' = NoSheet
        /\ status' = 200]_vars

C7_Witness ==
  /\ path = "Undo"
  /\ aiText = [kind |-> "nothingToUndo"]
  /\ Len(logs) = 2
  /\ logs[1].deleted /\ logs[2].deleted

\* the number of lines of a summary reply whose modules hold m
LinesWith(m) ==
  Cardinality({k \in 1..Len(aiText.list) :
                 \E n \in 1..Len(aiText.list[k].main) : aiText.list[k].main[n] = m})

\* C8: a Summary never keeps an entry that is deleted or whose timeISO is
\* null; the lines of the reply are the entries kept, and every count of the
\* reply counts lines of the reply only.
C8_SummarySkipsDeletedAndNull ==
  path = "Summary" =>
    /\ \A k \in 1..Len(rangeLogs) :
         ~logs[rangeLogs[k]].deleted /\ logs[rangeLogs[k]].timeISO # Null
    /\ aiText.kind = "noRecords" <=> rangeLogs = <<>>
    /\ aiText.kind = "summary" =>
         /\ Len(aiText.list) = Len(rangeLogs)
         /\ \A k \in 1..Len(rangeLogs) :
              /\ aiText.list[k].timeDisplay = logs[rangeLogs[k]].timeDisplay
              /\ aiText.list[k].main = logs[rangeLogs[k]].main
         /\ \A n \in 1..Len(aiText.stats) :
              aiText.stats[n].count = LinesWith(aiText.stats[n].module)

\* a summary listed one entry while an entry of the same instant is deleted
\* and left out
C8_Witness ==
  /\ path = "Summary"
  /\ aiText.kind = "summary"
  /\ Len(rangeLogs) = 1
  /\ \E i \in 1..Len(logs) :
       logs[i].deleted /\ logs[i].timeISO = logs[rangeLogs[1]].timeISO

\* 00:00 of the UTC+8 calendar day that holds the instant t
TaipeiDayStart(t) == ((t + 480) \div 1440) * 1440 - 480

\* C9: a Summary for "today" keeps exactly the entries that are not deleted
\* and whose timeISO is an instant t with start <= t < start + 1 day, start
\* being 00:00 of the current calendar day of UTC+8.
C9_TodayIsTaipeiDay ==
  [][(EventStep("Summary") /\ rangeType' = "today")
     => {rangeLogs'[k] : k \in 1..Len(rangeLogs')}
          = {i \in 1..Len(logs) :
               /\ ~logs[i].deleted
               /\ logs[i].timeISO # Null
               /\ DateParseISO(logs[i].timeISO) >= TaipeiDayStart(now)
               /\ DateParseISO(logs[i].timeISO) < TaipeiDayStart(now) + 1440}]_vars

HasMonthDay(text) == MatchNumSepNum(text, {"/", "-"}, FALSE).at > 0

\* C10 as claimed: one range is selected, with priority month/day pattern,
\* then week keyword, then month keyword, then today.
C10_DayBeatsKeywords ==
  path = "Summary" =>
    rangeType = IF HasMonthDay(userText) THEN "custom"
                ELSE IF includes(userText, <<"zhou1">>) THEN "week"
                ELSE IF includes(userText, <<"yue4">>) THEN "month"
                ELSE "today"

\* C10, amended: one range is selected, with priority week keyword, then
\* month keyword, then month/day pattern, then today: a request with both a
\* month/day pattern and the week (or month) keyword is answered for the
\* week (or month), and the title of the reply names the range selected.
C10_KeywordsBeatDay ==
  path = "Summary" =>
    /\ rangeType = IF includes(userText, <<"zhou1">>) THEN "week"
                   ELSE IF includes(userText, <<"yue4">>) THEN "month"
                   ELSE IF HasMonthDay(userText) THEN "custom"
                   ELSE "today"
    /\ status = 200 => aiText.title.type = rangeType

C10_Witness ==
  /\ path = "Summary"
  /\ userText = SummaryDayWeek
  /\ rangeType = "week"
  /\ aiText.title.type = "week"

\* the sum of the counts of a summary reply
SumCounts(st) ==
  LET F[n \in 0..Len(st)] == IF n = 0 THEN 0 ELSE F[n - 1] + st[n].count
  IN  F[Len(st)]

\* C11: in a Summary reply with a listing, the count of a module is the
\* number of listed entries whose main holds that module; the sum of the
\* counts is at least the number of listed entries, and equal to it exactly
\* when every listed entry has one module.
C11_CountsAreEntries ==
  (path = "Summary" /\ aiText.kind = "summary") =>
    /\ \A n \in 1..Len(aiText.stats) :
         aiText.stats[n].count = LinesWith(aiText.stats[n].module)
    /\ SumCounts(aiText.stats) >= Len(aiText.list)
    /\ SumCounts(aiText.stats) = Len(aiText.list)
         <=> \A k \in 1..Len(aiText.list) : Len(aiText.list[k].main) = 1

\* a summary counted two for a module that one listed entry holds
C11_Reached ==
  /\ path = "Summary"
  /\ aiText.kind = "summary"
  /\ Len(aiText.list) = 1
  /\ aiText.stats = <<[module |-> "F", count |-> 2]>>

\* C12: whatever the classification collaborator answers, every entry of
\* the store has a main that is a non-empty list of module labels and tags
\* that is a list of labels of the tag vocabulary.
C12_EntriesWellFormed ==
  \A i \in 1..Len(logs) :
    /\ logs[i].main # Undefined
    /\ logs[i].tags # Undefined
    /\ Len(logs[i].main) >= 1
    /\ \A n \in 1..Len(logs[i].main) : logs[i].main[n] \in Modules
    /\ \A n \in 1..Len(logs[i].tags) : logs[i].tags[n] \in TagVocabulary

\* an entry whose main is undefined is in the store and the handler ended
\* with status 500 and no reply
C12_Reached ==
  /\ path = "InstantLog"
  /\ Len(logs) = 1
  /\ logs[1].main = Undefined
  /\ status = 500
  /\ aiText = NoReply

\* C14: every text event yields one reply; a collaborator that fails or
\* answers out of its contract only changes the content of the reply, and
\* the handler never ends with an error status nor skips the reply.
C14_AlwaysOneReply ==
  path # "none" => (aiText # NoReply /\ status = 200)

\* C13: the parser gives a display and an instant or null for every text
\* and never throws: for every backlog message, whatever digits it holds,
\* the handler appends one backlog entry and sends one reply.
C13_ParserNeverThrows ==
  path = "Backlog" =>
    /\ ~parseDateTimeDetailed(stripBacklogMarker(userText)).threw
    /\ Len(logs) = 1
    /\ logs[1].type = "backlog"
    /\ aiText.kind = "backlog"
    /\ status = 200

\* a backlog with a time range was dropped: no entry, no reply, status 500
C13_Reached ==
  /\ path = "Backlog"
  /\ includes(userText, <<"0", "-", "1">>)
  /\ includes(userText, <<"jin1", "tian1">>)
  /\ logs = <<>>
  /\ aiText = NoReply
  /\ status = 500

\* C20 as claimed: the conversation history retained by the process holds
\* at most the 5 most recent turns.
C20_HistoryBounded == Len(chatHistory) <= HistoryWindow

\* C20, amended: the turns sent with a dialogue call are the most recent
\* turns of the history, the user turn of the message included, and at most
\* 5 of them; the history retained is never trimmed, it grows by one or two
\* turns with every conversation message.
C20_WindowSentHistoryKept ==
  [][EventStep("Conversation") =>
       LET asked == Append(chatHistory, [role |-> "user", content |-> userText'])
           n == Len(recentHistory')
       IN  /\ n = IF Len(asked) < 5 THEN Len(asked) ELSE 5
           /\ \A k \in 1..n : recentHistory'[k] = asked[Len(asked) - n + k]
           /\ Len(chatHistory') \in {Len(asked), Len(asked) + 1}
           /\ SubSeq(chatHistory', 1, Len(asked)) = asked]_vars

\* the history holds seven turns and five were sent
C20_Witness ==
  /\ path = "Conversation"
  /\ Len(chatHistory) = 7
  /\ Len(recentHistory) = 5
  /\ recentHistory[5] = [role |-> "user", content |-> userText]

\* a step that handles an event while the clock and the endpoint stand still
HandlerStep == now' = now /\ sheetWebhook' = sheetWebhook

\* the notification that goes with the change of the store in a step: an
\* append carrying the new entry, a delete carrying the timestamps of the
\* entry undone, nothing when the store is unchanged
NotificationFor ==
  IF Len(logs') > Len(logs)
  THEN [action |-> "append", item |-> logs'[Len(logs')]]
  ELSE IF logs' # logs
  THEN [action |-> "delete", timeISO |-> logs[targetLog'].timeISO,
        timeDisplay |-> logs[targetLog'].timeDisplay]
  ELSE NoSheet

\* the notification of the step without its delivery mark
SentNotification ==
  IF sheet' = NoSheet THEN NoSheet
  ELSE IF sheet'.action = "append"
  THEN [action |-> "append", item |-> sheet'.item]
  ELSE [action |-> "delete", timeISO |-> sheet'.timeISO,
        timeDisplay |-> sheet'.timeDisplay]

\* C18 as claimed: every append and every soft-delete is followed by one
\* notification for that entry, and nothing is sent without such a change.
C18_EveryMutationNotified ==
  [][HandlerStep => SentNotification = NotificationFor]_vars

\* C18, amended: with SHEET_WEBHOOK_URL set, every append and soft-delete is
\* followed by one notification for that entry and nothing is sent without
\* such a change; with it unset nothing is ever sent; a notification that
\* fails leaves the store and the reply as they are for one delivered.
C18_NotifiedWhenConfigured ==
  [][HandlerStep =>
       /\ sheetWebhook # "unset" => SentNotification = NotificationFor
       /\ sheetWebhook = "unset" => sheet' = NoSheet
       /\ (sheet' # NoSheet /\ ~sheet'.delivered) =>
            /\ sheetWebhook = "down"
            /\ logs' # logs
            /\ path' = "Undo" => (aiText'.kind = "undone" /\ status' = 200)
            /\ (path' # "Undo" /\ logs'[Len(logs')].main # Undefined) =>
                 (aiText'.kind \in {"backlog", "instant"} /\ status' = 200)]_vars

\* an undo was notified to an endpoint that is down and replied as usual
C18_Witness ==
  /\ path = "Undo"
  /\ sheetWebhook = "down"
  /\ sheet # NoSheet
  /\ sheet.action = "delete"
  /\ ~sheet.delivered
  /\ aiText.kind = "undone"
  /\ logs[targetLog].deleted

\* an entry was appended with the webhook unset and nothing was sent
C18_Reached ==
  /\ path = "Backlog"
  /\ sheetWebhook = "unset"
  /\ Len(logs) = 1
  /\ sheet = NoSheet

\* C19: an entry is created once, by the Backlog or Instant path, with its
\* time and categories; after that only its deleted flag changes, once, from
\* false to true and by the Undo path only; the Summary path leaves the
\* store as it is.
C19_EntryLifecycle ==
  [][/\ \A i \in 1..Len(logs) :
          /\ i <= Len(logs')
          /\ logs[i].deleted => logs'[i] = logs[i]
          /\ logs'[i] # logs[i] =>
               /\ path' = "Undo"
               /\ targetLog' = i
               /\ logs'[i] = [logs[i] EXCEPT !.deleted = TRUE]
     /\ Len(logs') > Len(logs) =>
          /\ Len(logs') = Len(logs) + 1
          /\ path' \in {"Backlog", "InstantLog"}
          /\ logs'[Len(logs')].type = IF path' = "Backlog" THEN "backlog" ELSE "instant"
          /\ ~logs'[Len(logs')].deleted
     /\ path' = "Summary" => logs' = logs]_vars

\* two entries, each undone once, the second by the last message
C19_Witness ==
  /\ path = "Undo"
  /\ aiText.kind = "undone"
  /\ targetLog = 2
  /\ logs[1].deleted /\ logs[2].deleted
  /\ logs[1].type = "backlog" /\ logs[2].type = "instant"

\* C15: an event of a batch that is malformed is skipped on its own: once
\* the request is served every text message of the batch, before and after
\* it, has been replied to.
C15_MalformedSkippedAlone ==
  \A id \in DOMAIN tasks :
    (tasks[id].pc = "done" /\ tasks[id].status \notin {403, 405}) =>
      \A k \in 1..Len(tasks[id].batch) :
        tasks[id].batch[k].kind = "text" =>
          \E n \in 1..Len(tasks[id].replies) : tasks[id].replies[n] = k

\* a batch of a log, a text message without text and a second log ended
\* with status 500 after one reply and one entry
C15_Reached ==
  /\ tasks["a"].pc = "done"
  /\ tasks["a"].status = 500
  /\ tasks["a"].batch = <<TextEvent(TxtMeal), NoTextEvent, TextEvent(TxtMeal)>>
  /\ tasks["a"].replies = <<1>>
  /\ Len(logs) = 1

\* the task is suspended in a call to a collaborator
Suspended(tk) == tk.pc \in {"classify", "summarize", "phrase", "sheet", "chat"}

\* C16: a message is handled to completion before the handling of the next
\* begins: while a task is suspended in a collaborator call, no step of
\* another task changes the store or the conversation history.
C16_OneMessageAtATime ==
  [][\A id \in DOMAIN tasks :
       (Suspended(tasks[id]) /\ tasks'[id] = tasks[id])
         => (logs' = logs /\ chatHistory' = chatHistory)]_vars

\* an instant log was still waiting for its phrase when an undo sent after
\* it was answered "nothing to undo"
C16_Reached ==
  /\ tasks["a"].path = "InstantLog"
  /\ tasks["a"].pc = "phrase"
  /\ tasks["b"].path = "Undo"
  /\ tasks["b"].pc = "done"
  /\ tasks["b"].aiText = [kind |-> "nothingToUndo"]
  /\ logs = <<>>

\* C17: every text message received is replied to in the end, also when a
\* call to a collaborator never settles.
C17_EveryMessageReplied ==
  \A id \in TaskIds : (tasks[id].pc # "idle") ~> (tasks[id].replies # <<>>)

\* a task is blocked in a call with no reply sent
C17_Reached ==
  \E id \in TaskIds : tasks[id].pc = "blocked" /\ tasks[id].replies = <<>>

\* the content of a backlog message: the text handed to the parser,
\* webhook.js:387
BacklogContent == stripBacklogMarker(userText)

\* the text holds a vague-time marker (the longer marker holds the shorter)
VagueMarked(text) == includes(text, <<"yue1">>) \/ includes(text, <<"da4", "yue1">>)

RelativeDayWords ==
  {<<"jin1", "tian1">>, <<"zuo2", "tian1">>, <<"qian2", "tian1">>, <<"ming2", "tian1">>}

HasRelativeDay(text) == \E w \in RelativeDayWords : includes(text, w)

HasClock(text) == MatchNumSepNum(text, {":", "dian3"}, TRUE).at > 0

C22_UndatedKeptVerbatim ==
  (/\ path = "Backlog"
   /\ ~VagueMarked(BacklogContent)
   /\ ~HasRelativeDay(BacklogContent)
   /\ ~HasMonthDay(BacklogContent))
    => /\ status = 200
       /\ Len(logs) = 1
       /\ logs[1].timeISO = Null
       /\ logs[1].timeDisplay = trim(BacklogContent)
       /\ parseDateTimeDetailed(BacklogContent).iso = Null

\* C22 witness: a content with a clock time and no date was stored as it is
C22_Witness ==
  /\ path = "Backlog"
  /\ ~VagueMarked(BacklogContent)
  /\ ~HasRelativeDay(BacklogContent)
  /\ ~HasMonthDay(BacklogContent)
  /\ HasClock(BacklogContent)
  /\ Len(logs) = 1
  /\ logs[1].timeISO = Null
  /\ logs[1].timeDisplay = <<"1", "4", ":", "3", "0", " ">> \o TxtWater

\* the offset in days of the only relative-day word of the text
OnlyWord(text, w) ==
  includes(text, w) /\ \A v \in RelativeDayWords \ {w} : ~includes(text, v)

DayOffsets ==
  { [w |-> <<"jin1", "tian1">>, k |-> 0], [w |-> <<"zuo2", "tian1">>, k |-> -1],
    [w |-> <<"qian2", "tian1">>, k |-> -2], [w |-> <<"ming2", "tian1">>, k |-> 1] }

\* the clock time of the text in minutes after midnight, 0 when it has none
ClockMinutes(text) ==
  LET hm == MatchNumSepNum(text, {":", "dian3"}, TRUE)
  IN  IF hm.at = 0 THEN 0 ELSE hm.g1 * 60 + (IF hm.g2 >= 0 THEN hm.g2 ELSE 0)

\* the entry stored for the message is dated k days from the current day of
\* the reference timezone, at the clock time of the content
StoredOnDay(k) ==
  /\ status = 200
  /\ Len(logs) = 1
  /\ logs[1].timeISO # Null
  /\ DateParseISO(logs[1].timeISO)
       = TaipeiDayStart(now) + k * 1440 + ClockMinutes(BacklogContent)

\* C23: a content with one relative-day word (and no vague marker, no
\* month/day pattern) is dated on the current UTC+8 day for today, one day
\* before for yesterday, two days before for the day before yesterday and
\* one day after for tomorrow, across month and year ends.
C23_RelativeDayOffsets ==
  \A o \in DayOffsets :
    (/\ path = "Backlog"
     /\ ~VagueMarked(BacklogContent)
     /\ ~HasMonthDay(BacklogContent)
     /\ OnlyWord(BacklogContent, o.w))
      => StoredOnDay(o.k)

\* C23 reached: on a host of the reference timezone, at 09:00, a content
\* that names today was stored dated on the next day
C23_Reached ==
  /\ path = "Backlog"
  /\ hostOffset = -480
  /\ now = TaipeiTime(2025, 9, 15, 9, 0)
  /\ BacklogContent
       = <<"jin1", "tian1", " ", " ", "1", "4", ":", "3", "0", " ">> \o TxtWater
  /\ Len(logs) = 1
  /\ logs[1].timeISO = toISOString(TaipeiTime(2025, 9, 16, 14, 30))

\* C24: the backlog marker, the word for yesterday, a clock time HH:MM and a
\* content append exactly one entry of kind backlog whose eventTime is
\* HH:MM, UTC+8 wall-clock time, of the day before the current UTC+8 day.
C24_YesterdayAtClock ==
  (/\ path = "Backlog"
   /\ startsWith(BacklogContent, <<"zuo2", "tian1">>)
   /\ OnlyWord(BacklogContent, <<"zuo2", "tian1">>)
   /\ HasClock(BacklogContent)
   /\ ~VagueMarked(BacklogContent)
   /\ ~HasMonthDay(BacklogContent))
    => /\ Len(logs) = 1
       /\ logs[1].type = "backlog"
       /\ logs[1].timeISO # Null
       /\ DateParseISO(logs[1].timeISO)
            = TaipeiDayStart(now) - 1440 + ClockMinutes(BacklogContent)

\* C24 reached: on a host of the reference timezone, at 09:00 of 15
\* September, yesterday 14:30 was stored as 15 September 14:30
C24_Reached ==
  /\ path = "Backlog"
  /\ hostOffset = -480
  /\ now = TaipeiTime(2025, 9, 15, 9, 0)
  /\ startsWith(BacklogContent, <<"zuo2", "tian1">>)
  /\ OnlyWord(BacklogContent, <<"zuo2", "tian1">>)
  /\ Len(logs) = 1
  /\ logs[1].type = "backlog"
  /\ logs[1].timeISO = toISOString(TaipeiTime(2025, 9, 15, 14, 30))
  /\ logs[1].timeDisplay = <<"9", "/", "1", "5", " ", "1", "4", ":", "3", "0">>

\* the message ends with a question marker
IsQuestion(text) == text # <<>> /\ text[Len(text)] \in QuestionEnds

\* C25: a message that ends with a question marker, holds no undo token and
\* no summary keyword and does not begin with the backlog marker takes the
\* Conversation path and appends nothing to the store, also when it holds
\* an action verb.
C25_QuestionIsConversation ==
  (/\ path # "none"
   /\ IsQuestion(userText)
   /\ ~isUndoRequest(userText)
   /\ ~isBacklogMessage(userText)
   /\ ~isSummaryRequest(userText))
    => /\ path = "Conversation"
       /\ logs = <<>>
       /\ chatHistory # <<>>
       /\ chatHistory[1] = [role |-> "user", content |-> userText]

\* C25 witness: a question with an action verb was handled as conversation
C25_Witness ==
  /\ path = "Conversation"
  /\ IsQuestion(userText)
  /\ \E v \in verbs : includes(userText, v)
  /\ logs = <<>>

\* the store holds entries, all of them dated on the UTC+8 calendar day
\* before the current one
OnlyYesterday ==
  /\ logs # <<>>
  /\ \A i \in 1..Len(logs) :
       /\ logs[i].timeISO # Null
       /\ DateParseISO(logs[i].timeISO) >= TaipeiDayStart(now) - 1440
       /\ DateParseISO(logs[i].timeISO) < TaipeiDayStart(now)

\* C26: a Summary whose range keeps no entry replies with the no-records
\* message under the label of the range, and with a listing otherwise; a
\* request for today against a store that holds only entries of the
\* previous UTC+8 day is answered with no records, at every hour.
C26_NoRecordsMessage ==
  path = "Summary" =>
    /\ status = 200 =>
         /\ aiText.kind = "noRecords" <=> rangeLogs = <<>>
         /\ aiText.kind = "noRecords" => aiText.title.type = rangeType
         /\ aiText.kind # "noRecords" => Len(aiText.list) = Len(rangeLogs)
    /\ (rangeType = "today" /\ OnlyYesterday)
         => (status = 200 /\ aiText = [kind |-> "noRecords",
                                       title |-> [type |-> "today", m |-> 0, d |-> 0]])

\* C26 reached: on a host seven hours west of UTC, at 00:30 of Monday in
\* the reference timezone, the request for today lists the entry dated
\* Sunday 23:30
C26_Reached ==
  /\ path = "Summary"
  /\ rangeType = "today"
  /\ OnlyYesterday
  /\ hostOffset = 420
  /\ now = TaipeiTime(2025, 9, 15, 0, 30)
  /\ Len(logs) = 1
  /\ logs[1].timeISO = toISOString(TaipeiTime(2025, 9, 14, 23, 30))
  /\ aiText.kind = "summary"
  /\ rangeLogs = <<1>>

\* 00:00 of the Monday, in the reference timezone UTC+8, of the week that
\* holds the instant t (1970-01-05 was a Monday)
TaipeiWeekStart(t) ==
  TaipeiDayStart(t) - ((((t + 480) \div 1440) + 3) % 7) * 1440

\* C30: on every day of the week a Summary for the week keeps exactly the
\* entries that are not deleted and whose eventTime lies in the 7 days from
\* 00:00 UTC+8 of the most recent Monday.
C30_WeekFromMonday ==
  (path = "Summary" /\ rangeType = "week") =>
    {rangeLogs[k] : k \in 1..Len(rangeLogs)}
      = {i \in 1..Len(logs) :
           /\ ~logs[i].deleted
           /\ logs[i].timeISO # Null
           /\ DateParseISO(logs[i].timeISO) >= TaipeiWeekStart(now)
           /\ DateParseISO(logs[i].timeISO) < TaipeiWeekStart(now) + 7 * 1440}

\* C30 reached: on a host in UTC, on Thursday, the summary of the week has
\* no record of the entry dated Monday 07:00 of that week
C30_Reached ==
  /\ path = "Summary"
  /\ rangeType = "week"
  /\ hostOffset = 0
  /\ now = TaipeiTime(2025, 9, 18, 12, 0)
  /\ Len(logs) = 1
  /\ ~logs[1].deleted
  /\ logs[1].timeISO = toISOString(TaipeiTime(2025, 9, 15, 7, 0))
  /\ rangeLogs = <<>>
  /\ aiText.kind = "noRecords"

\* the day number of the base date of the parser, webhook.js:131-133
ParserBaseDay ==
  LET base == LocalFields(taiwanNow, hostOffset)
  IN  DaysFromCivil(base.y, base.m, base.d)

\* the offset of the first word of words, a priority order, that the text holds
FirstOffset(text, words) ==
  LET hits == {i \in 1..Len(words) : includes(text, words[i].w)}
  IN  words[CHOOSE i \in hits : \A j \in hits : i <= j].k

\* the entry stored for a content with relative-day words is dated by the
\* word that comes first in the priority order words
DatedByFirstOf(words) ==
  (/\ path = "Backlog"
   /\ HasRelativeDay(BacklogContent)
   /\ ~VagueMarked(BacklogContent)
   /\ ~HasMonthDay(BacklogContent))
    => /\ status = 200
       /\ Len(logs) = 1
       /\ logs[1].timeISO # Null
       /\ DateParseISO(logs[1].timeISO)
            = (ParserBaseDay + FirstOffset(BacklogContent, words)) * 1440 - 480
                + ClockMinutes(BacklogContent)

\* C27 as claimed: of several relative-day words the parser applies the
\* first in the order day-before-yesterday, yesterday, today, tomorrow.
C27_FarthestPastFirst == DatedByFirstOf(WordsFarthestFirst)

\* C27 amended: of several relative-day words the parser applies the first
\* in the order today, yesterday, day-before-yesterday, tomorrow.
C27_TodayFirst == DatedByFirstOf(WordsInChainOrder)

\* C27 witness: a content with the words for today and for yesterday was
\* dated on the base day, and one with yesterday and the day before
\* yesterday would be dated one day before it
C27_Witness ==
  /\ path = "Backlog"
  /\ includes(BacklogContent, <<"jin1", "tian1">>)
  /\ includes(BacklogContent, <<"zuo2", "tian1">>)
  /\ ~VagueMarked(BacklogContent)
  /\ ~HasMonthDay(BacklogContent)
  /\ Len(logs) = 1
  /\ logs[1].timeISO # Null
  /\ DateParseISO(logs[1].timeISO) = ParserBaseDay * 1440 - 480 + ClockMinutes(BacklogContent)

\* the calendar fields, in the reference timezone UTC+8, of the instant t
TaipeiFields(t) == CivilFromDays((t + 480) \div 1440)

\* C28: a content with an explicit month/day pattern (and no vague marker)
\* is stored with a non-null eventTime whose month and day are those of the
\* pattern, whatever relative-day word it also holds, and whose year is the
\* current year of the reference timezone.
C28_MonthDayOverrides ==
  (/\ path = "Backlog"
   /\ HasMonthDay(BacklogContent)
   /\ ~VagueMarked(BacklogContent))
    => /\ status = 200
       /\ Len(logs) = 1
       /\ logs[1].timeISO # Null
       /\ LET md == MatchNumSepNum(BacklogContent, {"/", "-"}, FALSE)
              f  == TaipeiFields(DateParseISO(logs[1].timeISO))
          IN  f.m = md.g1 /\ f.d = md.g2 /\ f.y = TaipeiFields(now).y

\* C28 reached: the pattern 13/45 ended the request with status 500 and
\* nothing stored
C28_Reached ==
  /\ path = "Backlog"
  /\ BacklogContent = <<"1", "3", "/", "4", "5", " ", " ">> \o TxtWater
  /\ hostOffset = 0
  /\ status = 500
  /\ logs = <<>>
  /\ aiText = NoReply

\* the text from its first vague-time marker to its end; the marker is
\* "da4 yue1" where the first "yue1" follows a "da4"
FromWrittenMarker(text) ==
  LET at == {i \in 1..Len(text) : text[i] = "yue1"}
      i  == CHOOSE k \in at : \A j \in at : k <= j
  IN  SubSeq(text, IF i > 1 /\ text[i - 1] = "da4" THEN i - 1 ELSE i, Len(text))

\* the text from its first "yue1" to its end
FromFirstYue(text) ==
  LET at == {i \in 1..Len(text) : text[i] = "yue1"}
  IN  SubSeq(text, CHOOSE k \in at : \A j \in at : k <= j, Len(text))

\* an entry with a null eventTime is a backlog entry whose content has a
\* vague-time marker, or neither a relative-day word nor a month/day
\* pattern, and its display is phrase(content), resp. the trimmed content;
\* every instant entry has an eventTime
NullOnlyWhenUnresolved(phrase(_)) ==
  \A i \in 1..Len(logs) :
    /\ logs[i].type = "instant" => logs[i].timeISO # Null
    /\ logs[i].timeISO = Null =>
         /\ logs[i].type = "backlog"
         /\ path = "Backlog"
         /\ IF VagueMarked(BacklogContent)
            THEN logs[i].timeDisplay = phrase(trim(BacklogContent))
            ELSE /\ ~HasRelativeDay(BacklogContent)
                 /\ ~HasMonthDay(BacklogContent)
                 /\ logs[i].timeDisplay = trim(BacklogContent)

NoCommand(text) ==
  ~isUndoRequest(text) /\ ~isBacklogMessage(text) /\ ~isSummaryRequest(text)

\* a message that was handled, names no command and for which excluded
\* holds took the Conversation path and left the store as it was (empty)
ExcludedIsConversation(excluded(_)) ==
  (path # "none" /\ NoCommand(userText) /\ excluded(userText))
    => (path = "Conversation" /\ logs = <<>>)

ContainsNonLogPhrase(text) == \E p \in nonLogStarts : includes(text, p)

BeginsWithNonLogPhrase(text) == \E p \in nonLogStarts : startsWith(text, p)

\* C31 as claimed: a message that names no command and begins with or
\* contains anywhere a phrase of the exclusion list is routed to
\* Conversation and stores nothing, whatever verbs it holds.
C31_ExcludedAnywhere == ExcludedIsConversation(ContainsNonLogPhrase)

\* C31 amended: a message that names no command and begins with a phrase
\* of the exclusion list is routed to Conversation and stores nothing,
\* whatever verbs it holds; a phrase of the list later in the text
\* excludes nothing.
C31_ExcludedAtStart == ExcludedIsConversation(BeginsWithNonLogPhrase)

\* C31 witness: "wo3 jue2 de2" followed by the verb "chi1" was answered as
\* conversation
C31_Witness ==
  /\ path = "Conversation"
  /\ userText = <<"wo3", "jue2", "de2", "chi1">>
  /\ logs = <<>>

\* the module/tag pair of the first keyword rule of the text
RulePair(text) ==
  IF \E kw \in galleryKeywords : includes(text, kw)
  THEN [main |-> <<"A">>, tags |-> <<"admin">>, isNull |-> FALSE]
  ELSE [main |-> <<"E">>, tags |-> <<"tidy">>, isNull |-> FALSE]

\* C32: when the classification a task awaits is of a text that a keyword
\* rule matches, the task goes on whatever the collaborator's answer, even
\* if the collaborator never answers, with the gallery pair if the text
\* holds a gallery keyword (the office rule matching too or not) and with
\* the office pair otherwise.
C32_KeywordRuleDecides ==
  [][\A id \in DOMAIN tasks :
       (tasks[id].pc = "classify" /\ keywordRule(tasks[id].content)
          /\ tasks'[id] # tasks[id])
         => /\ tasks'[id].pc = "summarize"
            /\ tasks'[id].category = RulePair(tasks[id].content)]_vars

\* C32 witness: a text with a gallery keyword and the office rule was
\* stored with the gallery pair
C32_Witness ==
  /\ Len(logs) = 1
  /\ logs[1].summary # <<>>
  /\ tasks["a"].content = <<"ban4o", "gong1", "shi4b", "da3", "sao3",
                             "zuo4", "wang3", "zhan4">>
  /\ logs[1].main = <<"A">>
  /\ logs[1].tags = <<"admin">>

\* C33: the messages of a dialogue call are the system persona, then the
\* most recent turns of the history, at most 5, the last of them the user
\* turn of the message at hand; the reply to the user is the answer,
\* trimmed, whole if it has at most 1900 characters and else its first
\* 1900 characters.
C33_WindowSentReplyCut ==
  [][EventStep("Conversation") =>
       LET asked == Append(chatHistory, [role |-> "user", content |-> userText'])
           sent  == chatMessages(recentHistory')
           n     == Len(sent) - 1
           said  == chatHistory'[Len(chatHistory')]
       IN  /\ sent[1].role = "system"
           /\ n >= 1 /\ n <= 5
           /\ n = 5 \/ n = Len(asked)
           /\ \A k \in 1..n : sent[k + 1] = asked[Len(asked) - n + k]
           /\ sent[n + 1] = [role |-> "user", content |-> userText']
           /\ aiText'.kind \in {"chat", "busy"}
           /\ aiText'.kind = "chat" =>
                /\ said.role = "assistant"
                /\ Len(aiText'.text) <= 1900
                /\ aiText'.text = SubSeq(said.content, 1, Len(aiText'.text))
                /\ Len(aiText'.text) = 1900 \/ aiText'.text = said.content]_vars

\* C33 witness: an answer of 1901 characters came with a history of more
\* than five turns: five turns were sent and 1900 characters replied
C33_Witness ==
  /\ path = "Conversation"
  /\ Len(chatHistory) = 7
  /\ Len(recentHistory) = 5
  /\ Len(chatHistory[7].content) = 1901
  /\ aiText.kind = "chat"
  /\ Len(aiText.text) = 1900

\* the requests that chose an entry to undo, and those that went on to
\* confirm the removal
Undoers == {id \in DOMAIN tasks : tasks[id].path = "Undo" /\ tasks[id].target > 0}

UndoConfirmed == {id \in DOMAIN tasks : tasks[id].aiText.kind = "undone"}

\* C34: with requests that overlap in any way, every Undo request that
\* found an entry has flagged it by the time it is suspended, no two Undo
\* requests hold the same entry, the deleted entries are as many as the
\* Undo requests that found one, only those confirm, each its own entry,
\* and when all of them have passed the persistence notification the
\* confirmations are as many as the deleted entries.
C34_UndoIsAtomic ==
  /\ \A id \in Undoers : logs[tasks[id].target].deleted
  /\ \A a, b \in Undoers : a # b => tasks[a].target # tasks[b].target
  /\ Cardinality(Undoers) = Cardinality({i \in 1..Len(logs) : logs[i].deleted})
  /\ UndoConfirmed \subseteq Undoers
  /\ \A id \in UndoConfirmed :
       /\ tasks[id].aiText.timeDisplay = logs[tasks[id].target].timeDisplay
       /\ tasks[id].aiText.summary = logs[tasks[id].target].summary
  /\ (\A id \in Undoers : tasks[id].pc # "sheet") => UndoConfirmed = Undoers

\* C34 witness: two Undo requests overlap: the second found its entry
\* while the first was suspended at the persistence notification, and
\* each holds an entry of its own
C34_Witness ==
  /\ tasks["a"].path = "Undo" /\ tasks["a"].pc = "sheet" /\ tasks["a"].target = 2
  /\ tasks["b"].path = "Undo" /\ tasks["b"].pc = "sheet" /\ tasks["b"].target = 1

\* the task handles a log message
Logging(tk) == tk.path \in {"Backlog", "InstantLog"}

\* the entry of the log message the task handles is in the store
EntryStored(tk) ==
  /\ tk.target \in 1..Len(logs)
  /\ logs[tk.target].summary = tk.summary
  /\ logs[tk.target].timeDisplay = tk.t.display
  /\ logs[tk.target].type = IF tk.path = "Backlog" THEN "backlog" ELSE "instant"

\* the outcome of the call of lineReply that ended in this step
LastSent(id) == tasks'[id].sent[Len(tasks'[id].sent)]

\* the task ended with status 500 at the event it was handling and left
\* the store as it was
EndedInError(id) ==
  /\ tasks'[id].pc = "done"
  /\ tasks'[id].status = 500
  /\ tasks'[id].pos = tasks[id].pos
  /\ tasks'[id].replies = tasks[id].replies
  /\ logs' = logs

\* the task went on to the events after the one it was handling
WentOn(id) ==
  /\ tasks'[id].pos > tasks[id].pos
  /\ tasks'[id].pos > Len(tasks[id].batch) =>
       tasks'[id].pc = "done" /\ tasks'[id].status = 200
  /\ tasks'[id].pos <= Len(tasks[id].batch) => tasks'[id].pc # "done"

\* while a log message awaits its notification or its reply its entry is
\* in the store, and the step that ends the call removes no entry (an Undo
\* message later in the batch may flag it); failed(id) tells what a failed
\* reply leads to
StoredBeforeSent(failed(_)) ==
  \A id \in DOMAIN tasks :
    (Logging(tasks[id]) /\ tasks[id].pc \in {"sheet", "reply"}
       /\ tasks'[id] # tasks[id])
      => /\ EntryStored(tasks[id])
         /\ Len(logs') >= Len(logs)
         /\ \A i \in 1..Len(logs) :
              [logs'[i] EXCEPT !.deleted = FALSE] = [logs[i] EXCEPT !.deleted = FALSE]
         /\ tasks[id].pc = "reply" => failed(id)

FailureEndsRequest(id) == LastSent(id) # "ok" => EndedInError(id)

FailureByKind(id) ==
  /\ LastSent(id) = "threw" => EndedInError(id)
  /\ LastSent(id) = "notOk" => WentOn(id)

\* C35 as claimed: the entry of a log message is in the store before the
\* notification and the reply are sent and stays there; when sending the
\* reply fails the handler ends with status 500 and handles no further
\* event of the batch.
C35_FailedReplyEndsRequest == [][StoredBeforeSent(FailureEndsRequest)]_vars

\* C35 amended: as above for a reply request that cannot be made (the
\* fetch rejects); when the channel answers the reply request with an
\* error status the failure is only logged: the entry stays, the handler
\* goes on with the next event and ends with status 200.
C35_RejectedEndsRefusedGoesOn == [][StoredBeforeSent(FailureByKind)]_vars

\* C35 witness: the reply to the first of two log messages could not be
\* made: its entry is in the store, the request ended with 500 and the
\* second message was not handled
C35_Witness ==
  /\ tasks["a"].batch = <<TextEvent(TxtMeal), TextEvent(BacklogUndated)>>
  /\ tasks["a"].sent = <<"threw">>
  /\ tasks["a"].pc = "done" /\ tasks["a"].status = 500 /\ tasks["a"].pos = 1
  /\ Len(logs) = 1 /\ logs[1].type = "instant"

\* the channel refused the reply to the first log message and the second
\* was stored too
C35_Refused ==
  /\ tasks["a"].batch = <<TextEvent(TxtMeal), TextEvent(BacklogUndated)>>
  /\ tasks["a"].sent = <<"notOk", "ok">>
  /\ tasks["a"].pc = "done" /\ tasks["a"].status = 200
  /\ Len(logs) = 2

\* C36: a conversation message whose dialogue call fails is answered with
\* the busy message and adds its user turn, and nothing else, to the
\* history; one whose call succeeds adds the user turn and the assistant
\* turn.  The history can so hold user turns next to each other.
C36_FailedCallKeepsUserTurn ==
  [][EventStep("Conversation") =>
       LET asked == Append(chatHistory, [role |-> "user", content |-> userText'])
       IN  \/ /\ aiText' = [kind |-> "busy"]
              /\ chatHistory' = asked
           \/ /\ aiText'.kind = "chat"
              /\ Len(chatHistory') = Len(asked) + 1
              /\ SubSeq(chatHistory', 1, Len(asked)) = asked
              /\ chatHistory'[Len(asked) + 1].role = "assistant"]_vars

\* C36 witness: after an answered message two calls failed: the history
\* ends with two user turns and the reply is the busy message
C36_Witness ==
  /\ path = "Conversation"
  /\ aiText = [kind |-> "busy"]
  /\ Len(chatHistory) = 4
  /\ chatHistory[2].role = "assistant"
  /\ chatHistory[3].role = "user"
  /\ chatHistory[4] = [role |-> "user", content |-> userText]

\* C37: a run of a handler that is on the Conversation path leaves the log
\* store as it is, and a run on the Undo, Backlog, Instant or Summary
\* path leaves the conversation history as it is, whatever other requests
\* are suspended meanwhile.
C37_DisjointFrames ==
  [][\A id \in DOMAIN tasks :
       tasks'[id] # tasks[id] =>
         /\ tasks'[id].path = "Conversation" => logs' = logs
         /\ tasks'[id].path \in {"Undo", "Backlog", "InstantLog", "Summary"}
              => chatHistory' = chatHistory]_vars

\* C37 witness: a log message and a conversation message were handled in
\* overlapping requests: the store holds the entry of the one, the history
\* the two turns of the other
C37_Witness ==
  /\ tasks["a"].path = "InstantLog" /\ tasks["a"].pc = "done"
  /\ tasks["b"].path = "Conversation" /\ tasks["b"].pc = "done"
  /\ Len(logs) = 1 /\ logs[1].summary = tasks["a"].summary
  /\ chatHistory = <<[role |-> "user", content |-> tasks["b"].content],
                     [role |-> "assistant", content |-> <<"ok", "FW.">>]>>

\* the request is no POST, or its signature does not verify against the
\* channel secret
NotAdmitted(req) ==
  \/ req.method # "POST"
  \/ req.secret = Null
  \/ req.signature = Null \/ req.signature = <<>>
  \/ req.signature # hmac(req.secret, req.events)

\* C38: the step that receives a request that is no POST, or whose
\* signature does not verify against the channel secret (no signature, no
\* secret, another secret or another body), ends the request with 405 or
\* 403 with its body unparsed, leaves the store and the history as they
\* are, awaits no collaborator and sends no reply.
C38_RejectedBeforeParsing ==
  [][\A id \in DOMAIN tasks :
       (tasks[id].pc = "idle" /\ tasks'[id].pc # "idle"
          /\ NotAdmitted(tasks'[id].request))
         => /\ tasks'[id].pc = "done"
            /\ tasks'[id].status = IF tasks'[id].request.method # "POST"
                                   THEN 405 ELSE 403
            /\ tasks'[id].batch = <<>>
            /\ tasks'[id].replies = <<>>
            /\ tasks'[id].path = "none"
            /\ logs' = logs
            /\ chatHistory' = chatHistory]_vars

\* C38 witness: a POST with a log message signed with another secret was
\* rejected while the store held an entry: the store still holds it alone
C38_Witness ==
  /\ tasks["a"].pc = "done" /\ tasks["a"].status = 200 /\ Len(logs) = 1
  /\ tasks["b"].pc = "done" /\ tasks["b"].status = 403
  /\ tasks["b"].request.signature = hmac(<<"z">>, <<TextEvent(TxtMeal)>>)
  /\ tasks["b"].replies = <<>>

====
